---- MODULE Spec2Model ----
(***************************************************************************)
(* SafeRun-X402: the workflow orchestrator and its checkpoint / approval   *)
(* state machine (saferun/core/state_machine/orchestrator.py, models.py),  *)
(* the x402 client and its retry decorator, the supervisor, executor and  *)
(* monitor agents, state capture and the checkpoint manager, and the       *)
(* rollback manager.                                                       *)
(*                                                                         *)
(* Python lists are TLA+ sequences (1-based); current_checkpoint_index     *)
(* keeps the code's 0-based value, so config.checkpoints[i] is             *)
(* checkpoints[i + 1] here and an index >= Len(checkpoints) is the code's  *)
(* IndexError.  Values produced by uuid4() are modelled by the position at *)
(* which the object was created, which is unique within one execution.    *)
(***************************************************************************)
EXTENDS Integers, Sequences, FiniteSets, TLC

\* ------------------------------------------------------------------------
\* Bounds of the model
\* ------------------------------------------------------------------------
MaxCheckpoints == 2   \* longest config.checkpoints list drawn by initialize
MaxSnapshots   == 2   \* create_checkpoint calls issued per execution
MaxRequests    == 2   \* approval requests recorded per execution
MaxResponses   == 2   \* approval responses recorded per execution
MaxInFlight    == 2   \* create_checkpoint calls suspended at the sink

WorkflowIds == {"w1"}

\* ------------------------------------------------------------------------
\* State
\* ------------------------------------------------------------------------
VARIABLES
  active_workflows,   \* WorkflowOrchestrator.active_workflows: id -> execution
  x402_integration,   \* whether the orchestrator was built with an integration
  suspended,          \* create_checkpoint calls awaiting the artifact sink
  escrow,             \* the x402 escrow the integration settles against
  now,                \* the wall clock datetime.utcnow() reads, in seconds
  supervisor,         \* SupervisorAgent: pending_approvals, approval_history
  checkpoint_manager, \* CheckpointManager.checkpoints: id -> ExecutionState
  rollback_manager,   \* RollbackManager: transactions and rollback_history
  rollback_tasks,     \* execute_rollback calls suspended in an inverse
  executor,           \* ExecutorAgent: execution_context, intermediate_outputs
  monitor,            \* MonitorAgent: telemetry and checkpoint_triggers
  http                \* the x402 endpoint: requests it fails, calls it served

vars == << active_workflows, x402_integration, suspended, escrow, now,
           supervisor, checkpoint_manager, rollback_manager,
           rollback_tasks, executor, monitor, http >>

\* ------------------------------------------------------------------------
\* models.py
\* ------------------------------------------------------------------------
INITIALIZED       == "initialized"
EXECUTING         == "executing"
AWAITING_APPROVAL == "awaiting_approval"
ROLLING_BACK      == "rolling_back"
SETTLING          == "settling"
COMPLETED         == "completed"
FAILED            == "failed"

WorkflowState ==
  {INITIALIZED, EXECUTING, AWAITING_APPROVAL, ROLLING_BACK, SETTLING,
   COMPLETED, FAILED}

APPROVED == "approved"
REJECTED == "rejected"
MODIFIED == "modified"

ApprovalDecision == {APPROVED, REJECTED, MODIFIED}

\* Optional[str] / Optional[datetime] fields hold None or a string.
None == "None"

\* Optional[Dict]: <<>> is None, <<m>> is the mapping m.
NoModifications == << >>
SomeModifications(m) == << m >>

\* CheckpointConfig: checkpoint_id (a uuid, here the position), the flags.
timeout_seconds == 300

CheckpointConfig(i, ra, cr) ==
  [checkpoint_id |-> i, requires_approval |-> ra,
   timeout_seconds |-> timeout_seconds, can_rollback |-> cr]

\* WorkflowConfig: the ordered checkpoint list is what the orchestrator reads.
WorkflowConfig ==
  UNION { { [checkpoints |-> [i \in 1..n |-> CheckpointConfig(i, ra[i], cr[i])]] :
              ra \in [1..n -> {TRUE}], cr \in [1..n -> BOOLEAN] } :
          n \in 1..MaxCheckpoints }

\* ExecutionState payloads handed to create_checkpoint (opaque to the
\* orchestrator, stored in the snapshot as given).
ExecutionState == {"state_a"}

CheckpointSnapshot(sid, cp, es) ==
  [snapshot_id |-> sid, checkpoint_id |-> cp.checkpoint_id,
   execution_state |-> es, approval_required |-> cp.requires_approval,
   artifact_uri |-> None]

\* ApprovalRequest as request_approval builds it: created_at defaults to
\* the clock's reading, expires_at is left at its default.
ApprovalRequest(rid, snapshot) ==
  [request_id |-> rid, checkpoint_id |-> snapshot.checkpoint_id,
   snapshot_id |-> snapshot.snapshot_id,
   created_at |-> now, expires_at |-> None]

\* ApprovalResponse values a supervisor hands back for the request `pending`:
\* one per decision, MODIFIED carrying its modifications mapping.
ApprovalResponse(pending) ==
  { [request_id |-> pending, decision |-> APPROVED,
     modifications |-> NoModifications],
    [request_id |-> pending, decision |-> REJECTED,
     modifications |-> NoModifications],
    [request_id |-> pending, decision |-> MODIFIED,
     modifications |-> SomeModifications([value |-> 10])] }

WorkflowExecution(cfg) ==
  [config |-> cfg,
   current_state |-> INITIALIZED,
   current_checkpoint_index |-> 0,
   snapshots |-> << >>,
   approval_requests |-> << >>,
   approval_responses |-> << >>,
   completed_at |-> None,
   error_message |-> None]

UtcNow == "utcnow"

\* What the orchestrator's handlers never touch.
beyond_orchestrator ==
  << escrow, now, supervisor, checkpoint_manager, rollback_manager,
     rollback_tasks, executor, monitor, http >>

\* SupervisorAgent.__init__, CheckpointManager.__init__ and
\* RollbackManager.__init__: nothing pending, stored or registered.
SupervisorAgent == [pending_approvals |-> << >>, approval_history |-> << >>]

CheckpointManager == [checkpoints |-> << >>]

RollbackManager ==
  [compensating_transactions |-> << >>, keys |-> << >>,
   rollback_history |-> << >>, invoked |-> << >>]

\* ExecutorAgent.__init__: the context and the outputs start empty.
ExecutorAgent == [execution_context |-> << >>, intermediate_outputs |-> << >>]

\* MonitorAgent.__init__
MonitorAgent == [telemetry |-> << >>, checkpoint_triggers |-> << >>]

\* The endpoint X402Client talks to: the requests it is about to fail and
\* with what, and per client call served the number of requests it took.
Endpoint == [failing |-> 0, error |-> "HTTPError", calls |-> << >>]

\* The components as constructed, at the time the program starts.
Constructed ==
  /\ now = 0
  /\ supervisor = SupervisorAgent
  /\ checkpoint_manager = CheckpointManager
  /\ rollback_manager = RollbackManager
  /\ rollback_tasks = << >>
  /\ executor = ExecutorAgent
  /\ monitor = MonitorAgent
  /\ http = Endpoint

\* An escrow of the x402 platform as the client's calls leave it: the amount
\* locked, the total of the split amounts posted with success, the number of
\* such posts, and the settlement X402Integration.settle_workflow returned
\* last (<<>> before the first).  Amounts are held in hundredths of a unit.
Escrow(amount) ==
  [amount |-> amount, released |-> 0, posts |-> 0, settlement |-> << >>]

Registered(w) == w \in DOMAIN active_workflows

Update(w, exec) == [active_workflows EXCEPT ![w] = exec]

\* WorkflowOrchestrator(): no x402 integration, as the constructor defaults.
Init ==
  /\ active_workflows = << >>
  /\ escrow = Escrow(0)
  /\ Constructed
  /\ x402_integration = FALSE
  /\ suspended = {}

\* WorkflowOrchestrator(x402_integration=X402Integration()).
InitSink ==
  /\ active_workflows = << >>
  /\ escrow = Escrow(0)
  /\ Constructed
  /\ x402_integration = TRUE
  /\ suspended = {}

\* What a call hands back: the returned value, or the exception it raised.
\* Each handler below is a function from the execution it found and its
\* arguments to the execution it leaves and this outcome.
True       == "True"
False      == "False"
IndexError == "IndexError"

Outcome(workflow, result) == [workflow |-> workflow, result |-> result]

\* ------------------------------------------------------------------------
\* WorkflowOrchestrator
\* ------------------------------------------------------------------------
initialize_workflow(w, cfg) ==
  /\ active_workflows' =
       [x \in DOMAIN active_workflows \cup {w} |->
          IF x = w THEN WorkflowExecution(cfg) ELSE active_workflows[x]]
  \* a call still suspended at the sink holds the replaced execution object
  \* and can no longer reach the registered one
  /\ suspended' = { c \in suspended : c.workflow_id # w }
  /\ UNCHANGED << x402_integration, beyond_orchestrator >>

start_execution_outcome(workflow) ==
  IF workflow.current_state # INITIALIZED
  THEN Outcome(workflow, False)
  ELSE Outcome([workflow EXCEPT !.current_state = EXECUTING], True)

start_execution(w) ==
  /\ UNCHANGED << x402_integration, suspended, beyond_orchestrator >>
  /\ IF ~Registered(w)
     THEN UNCHANGED active_workflows
     ELSE active_workflows' =
            Update(w, start_execution_outcome(active_workflows[w]).workflow)

\* Calls of create_checkpoint on w that are suspended at the artifact sink.
SuspendedOn(w) == { c \in suspended : c.workflow_id = w }

\* The snapshot ids handed out so far for w (one uuid per snapshot built).
Issued(w) == Len(active_workflows[w].snapshots) + Cardinality(SuspendedOn(w))

\* create_checkpoint up to its await (lines 70-96): None, IndexError, or
\* the snapshot built for the checkpoint config at the current index.
create_checkpoint_outcome(workflow, sid, execution_state) ==
  IF workflow.current_state # EXECUTING
  THEN Outcome(workflow, None)
  ELSE IF workflow.current_checkpoint_index >= Len(workflow.config.checkpoints)
  THEN Outcome(workflow, IndexError)
  ELSE [workflow |-> workflow, result |-> "snapshot",
        snapshot |-> CheckpointSnapshot(sid,
          workflow.config.checkpoints[workflow.current_checkpoint_index + 1],
          execution_state)]

AppendSnapshot(workflow, snapshot) ==
  [workflow EXCEPT !.snapshots = Append(@, snapshot)]

create_checkpoint(w, execution_state) ==
  /\ UNCHANGED << x402_integration, beyond_orchestrator >>
  /\ IF ~Registered(w)
     THEN UNCHANGED << active_workflows, suspended >>
     ELSE LET out == create_checkpoint_outcome(active_workflows[w],
                                               Issued(w) + 1, execution_state)
          IN  IF out.result # "snapshot"
              THEN UNCHANGED << active_workflows, suspended >>
              ELSE /\ Issued(w) < MaxSnapshots
                   /\ IF x402_integration
                      THEN \* line 96: suspended at the artifact sink
                           /\ Cardinality(suspended) < MaxInFlight
                           /\ suspended' = suspended \cup
                                {[workflow_id |-> w, snapshot |-> out.snapshot]}
                           /\ UNCHANGED active_workflows
                      ELSE /\ active_workflows' =
                                Update(w, AppendSnapshot(out.workflow, out.snapshot))
                           /\ UNCHANGED suspended

\* What X402Integration.store_checkpoint_artifact can hand back: a URI, or
\* an exception (here None), which create_checkpoint swallows.
ArtifactUri == {"x402://artifact"}

\* create_checkpoint giving the snapshot up when the sink raised.
create_checkpoint_resume_drops_on_failure(c, sink_result) ==
  /\ c \in suspended
  /\ suspended' = suspended \ {c}
  /\ active_workflows' =
       IF sink_result = None
       THEN active_workflows
       ELSE Update(c.workflow_id,
                   AppendSnapshot(active_workflows[c.workflow_id],
                                  [c.snapshot EXCEPT !.artifact_uri = sink_result]))
  /\ UNCHANGED << x402_integration, beyond_orchestrator >>

\* create_checkpoint resumes after the await: artifact_uri is set when the
\* sink returned one, and the snapshot is appended either way.
create_checkpoint_resume(c, sink_result) ==
  /\ c \in suspended
  /\ suspended' = suspended \ {c}
  /\ active_workflows' =
       Update(c.workflow_id,
              AppendSnapshot(active_workflows[c.workflow_id],
                             [c.snapshot EXCEPT !.artifact_uri = sink_result]))
  /\ UNCHANGED << x402_integration, beyond_orchestrator >>

\* The snapshot ids a caller passes to request_approval for w: that of the
\* snapshot create_checkpoint returned last, and one no snapshot has (0).
SnapshotIds(w) ==
  {0} \cup
  (IF Registered(w) /\ active_workflows[w].snapshots # << >>
   THEN {active_workflows[w].snapshots[Len(active_workflows[w].snapshots)].snapshot_id}
   ELSE {})

\* next((s for s in workflow.snapshots if s.snapshot_id == snapshot_id), None)
FindSnapshot(workflow, snapshot_id) ==
  { i \in 1..Len(workflow.snapshots) :
      /\ workflow.snapshots[i].snapshot_id = snapshot_id
      /\ \A j \in 1..(i - 1) : workflow.snapshots[j].snapshot_id # snapshot_id }

request_approval_outcome(workflow, snapshot_id) ==
  LET found == FindSnapshot(workflow, snapshot_id) IN
  IF found = {}
  THEN Outcome(workflow, None)
  ELSE LET snapshot == workflow.snapshots[CHOOSE i \in found : TRUE]
           request ==
             ApprovalRequest(Len(workflow.approval_requests) + 1, snapshot)
       IN  Outcome([workflow EXCEPT
                      !.current_state = AWAITING_APPROVAL,
                      !.approval_requests = Append(@, request)],
                   "request")

request_approval(w, snapshot_id) ==
  /\ UNCHANGED << x402_integration, suspended, beyond_orchestrator >>
  /\ IF ~Registered(w)
     THEN UNCHANGED active_workflows
     ELSE LET out == request_approval_outcome(active_workflows[w], snapshot_id)
          IN  /\ Len(out.workflow.approval_requests) <= MaxRequests
              /\ active_workflows' = Update(w, out.workflow)

\* Approve with the end test written > instead of >=: the last approval
\* goes back to EXECUTING.
ApproveSettlesLate(workflow) ==
  LET index == workflow.current_checkpoint_index + 1 IN
  Outcome([workflow EXCEPT
             !.current_checkpoint_index = index,
             !.current_state = IF index > Len(workflow.config.checkpoints)
                               THEN SETTLING ELSE EXECUTING],
          True)

\* submit_approval, decision APPROVED (lines 181-190).
Approve(workflow) ==
  LET index == workflow.current_checkpoint_index + 1 IN
  Outcome([workflow EXCEPT
             !.current_checkpoint_index = index,
             !.current_state = IF index >= Len(workflow.config.checkpoints)
                               THEN SETTLING ELSE EXECUTING],
          True)

RollbackNotPermitted == "Approval rejected and rollback not permitted"

\* Reject rolling back whatever the checkpoint's can_rollback says.
RejectAlwaysRollsBack(workflow) ==
  IF workflow.current_checkpoint_index >= Len(workflow.config.checkpoints)
  THEN Outcome(workflow, IndexError)
  ELSE Outcome([workflow EXCEPT !.current_state = ROLLING_BACK], True)

\* submit_approval, decision REJECTED (lines 194-204); line 194 raises when
\* the index is past the last checkpoint config.
Reject(workflow) ==
  IF workflow.current_checkpoint_index >= Len(workflow.config.checkpoints)
  THEN Outcome(workflow, IndexError)
  ELSE IF workflow.config.checkpoints[workflow.current_checkpoint_index + 1].can_rollback
  THEN Outcome([workflow EXCEPT !.current_state = ROLLING_BACK], True)
  ELSE Outcome([workflow EXCEPT !.current_state = FAILED,
                                !.error_message = RollbackNotPermitted],
               True)

\* Modify recording the response without its modifications mapping.
ModifyDropsModifications(workflow) ==
  Outcome([workflow EXCEPT
             !.current_state = EXECUTING,
             !.approval_responses[Len(workflow.approval_responses)].modifications
                = NoModifications],
          True)

\* Modify advancing as an approval does, so that a modification of the last
\* checkpoint moves to SETTLING.
ModifyAutoAdvances(workflow) ==
  LET index == workflow.current_checkpoint_index + 1 IN
  Outcome([workflow EXCEPT
             !.current_checkpoint_index = index,
             !.current_state = IF index >= Len(workflow.config.checkpoints)
                               THEN SETTLING ELSE EXECUTING],
          True)

\* submit_approval, decision MODIFIED (lines 208-210).
Modify(workflow) ==
  Outcome([workflow EXCEPT !.current_state = EXECUTING], True)

\* submit_approval appending the response before it tests the state.
submit_approval_records_first(workflow, response) ==
  LET recorded ==
        [workflow EXCEPT !.approval_responses = Append(@, response)]
  IN  IF workflow.current_state # AWAITING_APPROVAL
      THEN Outcome(recorded, False)
      ELSE CASE response.decision = APPROVED -> Approve(recorded)
             [] response.decision = REJECTED -> Reject(recorded)
             [] response.decision = MODIFIED -> Modify(recorded)

\* submit_approval, lines 169-212.
submit_approval_outcome(workflow, response) ==
  IF workflow.current_state # AWAITING_APPROVAL
  THEN Outcome(workflow, False)
  ELSE LET recorded ==
             [workflow EXCEPT !.approval_responses = Append(@, response)]
       IN  CASE response.decision = APPROVED -> Approve(recorded)
             [] response.decision = REJECTED -> Reject(recorded)
             [] response.decision = MODIFIED -> Modify(recorded)

\* The responses a caller submits for w: answers to its latest request.
Responses(w) ==
  ApprovalResponse(IF Registered(w)
                   THEN Len(active_workflows[w].approval_requests)
                   ELSE 0)

submit_approval(w, response) ==
  /\ UNCHANGED << x402_integration, suspended, beyond_orchestrator >>
  /\ IF ~Registered(w)
     THEN UNCHANGED active_workflows
     ELSE LET out == submit_approval_outcome(active_workflows[w], response)
          IN  /\ Len(out.workflow.approval_responses) <= MaxResponses
              /\ active_workflows' = Update(w, out.workflow)

Max(a, b) == IF a >= b THEN a ELSE b

RollbackFailed == "Rollback failed"

\* complete_rollback returning to EXECUTING without stepping the index back.
complete_rollback_keeps_index(workflow, success) ==
  IF success
  THEN Outcome([workflow EXCEPT !.current_state = EXECUTING], True)
  ELSE Outcome([workflow EXCEPT !.current_state = FAILED,
                                !.error_message = "Rollback failed"],
               True)

\* complete_rollback, lines 220-230.
complete_rollback_outcome(workflow, success) ==
  IF success
  THEN Outcome([workflow EXCEPT
                  !.current_checkpoint_index =
                     Max(0, workflow.current_checkpoint_index - 1),
                  !.current_state = EXECUTING],
               True)
  ELSE Outcome([workflow EXCEPT !.current_state = FAILED,
                                !.error_message = RollbackFailed],
               True)

complete_rollback(w, success) ==
  /\ UNCHANGED << x402_integration, suspended, beyond_orchestrator >>
  /\ IF ~Registered(w)
     THEN UNCHANGED active_workflows
     ELSE active_workflows' =
            Update(w, complete_rollback_outcome(active_workflows[w], success).workflow)

settle_workflow_outcome(workflow) ==
  Outcome([workflow EXCEPT !.current_state = SETTLING], True)

settle_workflow(w) ==
  /\ UNCHANGED << x402_integration, suspended, beyond_orchestrator >>
  /\ IF ~Registered(w)
     THEN UNCHANGED active_workflows
     ELSE active_workflows' =
            Update(w, settle_workflow_outcome(active_workflows[w]).workflow)

\* complete_workflow leaving completed_at unset.
complete_workflow_without_timestamp(workflow) ==
  Outcome([workflow EXCEPT !.current_state = COMPLETED], True)

\* complete_workflow, lines 254-259.
complete_workflow_outcome(workflow) ==
  Outcome([workflow EXCEPT !.current_state = COMPLETED,
                           !.completed_at = UtcNow],
          True)

complete_workflow(w) ==
  /\ UNCHANGED << x402_integration, suspended, beyond_orchestrator >>
  /\ IF ~Registered(w)
     THEN UNCHANGED active_workflows
     ELSE active_workflows' =
            Update(w, complete_workflow_outcome(active_workflows[w]).workflow)

\* Reasons a caller passes to fail_workflow.
ErrorReasons == {"Execution error"}

\* fail_workflow marking the failure without recording the reason.
fail_workflow_without_reason(workflow, error) ==
  Outcome([workflow EXCEPT !.current_state = FAILED,
                           !.completed_at = UtcNow],
          True)

\* fail_workflow, lines 261-273.
fail_workflow_outcome(workflow, error) ==
  Outcome([workflow EXCEPT !.current_state = FAILED,
                           !.error_message = error,
                           !.completed_at = UtcNow],
          True)

fail_workflow(w, error) ==
  /\ UNCHANGED << x402_integration, suspended, beyond_orchestrator >>
  /\ IF ~Registered(w)
     THEN UNCHANGED active_workflows
     ELSE active_workflows' =
            Update(w, fail_workflow_outcome(active_workflows[w], error).workflow)

Next ==
  \/ \E w \in WorkflowIds, cfg \in WorkflowConfig : initialize_workflow(w, cfg)
  \/ \E w \in WorkflowIds : start_execution(w)
  \/ \E w \in WorkflowIds, es \in ExecutionState : create_checkpoint(w, es)
  \/ \E w \in WorkflowIds : \E sid \in SnapshotIds(w) : request_approval(w, sid)
  \/ \E w \in WorkflowIds : \E response \in Responses(w) :
       submit_approval(w, response)
  \/ \E w \in WorkflowIds, success \in BOOLEAN : complete_rollback(w, success)
  \/ \E w \in WorkflowIds : settle_workflow(w)
  \/ \E w \in WorkflowIds : complete_workflow(w)
  \/ \E w \in WorkflowIds, error \in ErrorReasons : fail_workflow(w, error)

Spec == Init /\ [][Next]_vars

\* The orchestrator with an artifact sink: create_checkpoint suspends at the
\* sink and other calls run before it resumes.
NextSink ==
  \/ Next
  \/ \E c \in suspended, r \in ArtifactUri \cup {None} :
       create_checkpoint_resume(c, r)

SpecSink == InitSink /\ [][NextSink]_vars

\* ------------------------------------------------------------------------
\* Properties of the orchestrator state machine
\* ------------------------------------------------------------------------
Terminal == {COMPLETED, FAILED}

NumCheckpoints(workflow) == Len(workflow.config.checkpoints)

\* A step of one of the orchestrator's operations on the registered w.
OrchestratorOp(w) ==
  \/ start_execution(w)
  \/ \E es \in ExecutionState : create_checkpoint(w, es)
  \/ \E sid \in SnapshotIds(w) : request_approval(w, sid)
  \/ \E response \in Responses(w) : submit_approval(w, response)
  \/ \E success \in BOOLEAN : complete_rollback(w, success)
  \/ settle_workflow(w)
  \/ complete_workflow(w)
  \/ \E error \in ErrorReasons : fail_workflow(w, error)

\* What each operation returns when called on the execution `workflow`.
Results(workflow) ==
  {start_execution_outcome(workflow).result,
   settle_workflow_outcome(workflow).result,
   complete_workflow_outcome(workflow).result}
  \cup { create_checkpoint_outcome(workflow, 1, es).result : es \in ExecutionState }
  \cup { request_approval_outcome(workflow, sid).result :
           sid \in {workflow.snapshots[i].snapshot_id : i \in DOMAIN workflow.snapshots} }
  \cup { submit_approval_outcome(workflow, response).result :
           response \in ApprovalResponse(Len(workflow.approval_requests)) }
  \cup { complete_rollback_outcome(workflow, success).result : success \in BOOLEAN }
  \cup { fail_workflow_outcome(workflow, error).result : error \in ErrorReasons }

\* C1: terminal states are absorbing: once current_state is COMPLETED or
\* FAILED every further orchestrator operation is rejected (returns False or
\* None) and current_state never changes again.
C1_TerminalAbsorbing ==
  [][\A w \in WorkflowIds :
       (/\ Registered(w)
        /\ active_workflows[w].current_state \in Terminal
        /\ OrchestratorOp(w))
       => /\ Results(active_workflows[w]) \subseteq {False, None}
          /\ active_workflows'[w].current_state =
               active_workflows[w].current_state]_vars

\* C2: 0 <= current_checkpoint_index <= len(config.checkpoints) in every
\* reachable state, and no operation indexes config.checkpoints out of range.
C2_IndexInRange ==
  \A w \in DOMAIN active_workflows :
    /\ 0 <= active_workflows[w].current_checkpoint_index
    /\ active_workflows[w].current_checkpoint_index
         <= NumCheckpoints(active_workflows[w])
    /\ IndexError \notin Results(active_workflows[w])

\* C3: current_checkpoint_index equals len(config.checkpoints) only while
\* current_state is SETTLING, COMPLETED or FAILED.
C3_IndexAtEndOnlyWhenSettled ==
  \A w \in DOMAIN active_workflows :
    active_workflows[w].current_checkpoint_index
        = NumCheckpoints(active_workflows[w])
    => active_workflows[w].current_state \in {SETTLING, COMPLETED, FAILED}

\* C4: a workflow becomes COMPLETED only by complete_workflow invoked in
\* SETTLING; complete_workflow invoked in any other state leaves the workflow
\* unchanged; so a COMPLETED workflow has had all its checkpoints approved.
C4_CompletedOnlyFromSettling ==
  [][\A w \in WorkflowIds :
       Registered(w)
       => /\ (/\ active_workflows[w].current_state # COMPLETED
              /\ active_workflows'[w].current_state = COMPLETED)
             => /\ active_workflows[w].current_state = SETTLING
                /\ complete_workflow(w)
          /\ (/\ active_workflows[w].current_state # SETTLING
              /\ complete_workflow(w))
             => active_workflows'[w] = active_workflows[w]
          /\ active_workflows'[w].current_state = COMPLETED
             => active_workflows'[w].current_checkpoint_index
                  = NumCheckpoints(active_workflows'[w])]_vars

\* C5: request_approval is accepted only while the workflow is EXECUTING: in
\* any other state it fails, appends no approval request and leaves
\* current_state unchanged.
C5_RequestApprovalOnlyWhenExecuting ==
  [][\A w \in WorkflowIds :
       (Registered(w) /\ active_workflows[w].current_state # EXECUTING)
       => \A sid \in SnapshotIds(w) :
            request_approval(w, sid)
            => /\ request_approval_outcome(active_workflows[w], sid).result = None
               /\ active_workflows'[w].approval_requests
                    = active_workflows[w].approval_requests
               /\ active_workflows'[w].current_state
                    = active_workflows[w].current_state]_vars

LastResponse(workflow) ==
  workflow.approval_responses[Len(workflow.approval_responses)]

\* A step in which submit_approval records `response` for the workflow w
\* that is AWAITING_APPROVAL.
Submits(w, response) ==
  /\ Registered(w)
  /\ active_workflows[w].current_state = AWAITING_APPROVAL
  /\ submit_approval(w, response)

\* C6: submit_approval with decision APPROVED in AWAITING_APPROVAL increments
\* current_checkpoint_index by exactly one and moves to EXECUTING when the
\* new index is below len(config.checkpoints), to SETTLING when it equals it.
C6_ApprovedAdvances ==
  [][\A w \in WorkflowIds : \A response \in Responses(w) :
       (response.decision = APPROVED /\ Submits(w, response))
       => /\ active_workflows'[w].current_checkpoint_index
               = active_workflows[w].current_checkpoint_index + 1
          /\ active_workflows'[w].current_checkpoint_index
               < NumCheckpoints(active_workflows[w])
             => active_workflows'[w].current_state = EXECUTING
          /\ active_workflows'[w].current_checkpoint_index
               = NumCheckpoints(active_workflows[w])
             => active_workflows'[w].current_state = SETTLING]_vars

\* Both checkpoints of a two-checkpoint workflow approved: the first approval
\* went back to EXECUTING, the second moved to SETTLING.
C6_Witness ==
  \E w \in DOMAIN active_workflows :
    /\ NumCheckpoints(active_workflows[w]) = 2
    /\ Len(active_workflows[w].approval_responses) = 2
    /\ \A i \in 1..2 : active_workflows[w].approval_responses[i].decision = APPROVED
    /\ Len(active_workflows[w].snapshots) = 2
    /\ active_workflows[w].current_checkpoint_index = 2
    /\ active_workflows[w].current_state = SETTLING

ModifiesLast(w, response) ==
  /\ response.decision = MODIFIED
  /\ Submits(w, response)
  /\ active_workflows[w].current_checkpoint_index + 1
       = NumCheckpoints(active_workflows[w])

C9_RejectedRollsBackOrFails ==
  [][\A w \in WorkflowIds : \A response \in Responses(w) :
       (response.decision = REJECTED /\ Submits(w, response))
       => LET workflow == active_workflows[w]
              index == workflow.current_checkpoint_index
              can_rollback ==
                /\ index < NumCheckpoints(workflow)
                /\ workflow.config.checkpoints[index + 1].can_rollback
          IN  /\ active_workflows'[w].current_checkpoint_index = index
              /\ IF can_rollback
                 THEN active_workflows'[w].current_state = ROLLING_BACK
                 ELSE /\ active_workflows'[w].current_state = FAILED
                      /\ active_workflows'[w].error_message
                           = "Approval rejected and rollback not permitted"]_vars

\* C10: complete_rollback on a ROLLING_BACK workflow with success=true moves
\* it to EXECUTING with current_checkpoint_index = max(0, index - 1); with
\* success=false it moves it to FAILED.
C10_RollbackCompletion ==
  [][\A w \in WorkflowIds : \A success \in BOOLEAN :
       (/\ Registered(w)
        /\ active_workflows[w].current_state = ROLLING_BACK
        /\ complete_rollback(w, success))
       => IF success
          THEN /\ active_workflows'[w].current_state = EXECUTING
               /\ active_workflows'[w].current_checkpoint_index
                    = IF active_workflows[w].current_checkpoint_index >= 1
                      THEN active_workflows[w].current_checkpoint_index - 1
                      ELSE 0
          ELSE active_workflows'[w].current_state = FAILED]_vars

\* First checkpoint approved, second rejected, rollback completed: the
\* workflow is EXECUTING again at index 0.
C10_Witness ==
  \E w \in DOMAIN active_workflows :
    /\ Len(active_workflows[w].approval_responses) = 2
    /\ active_workflows[w].approval_responses[1].decision = APPROVED
    /\ active_workflows[w].approval_responses[2].decision = REJECTED
    /\ active_workflows[w].current_state = EXECUTING
    /\ active_workflows[w].current_checkpoint_index = 0

\* C11: complete_rollback is accepted only in ROLLING_BACK: called in any
\* other state (a second call after the first finalized the rollback
\* included) it is an error that changes neither current_state nor
\* current_checkpoint_index.
C11_CompleteRollbackOnlyWhenRollingBack ==
  [][\A w \in WorkflowIds : \A success \in BOOLEAN :
       (/\ Registered(w)
        /\ active_workflows[w].current_state # ROLLING_BACK
        /\ complete_rollback(w, success))
       => /\ complete_rollback_outcome(active_workflows[w], success).result
               # True
          /\ active_workflows'[w].current_state
               = active_workflows[w].current_state
          /\ active_workflows'[w].current_checkpoint_index
               = active_workflows[w].current_checkpoint_index]_vars

\* C17: initialize_workflow with a workflow id that is already registered
\* fails and leaves the registered execution (its state, checkpoint index,
\* snapshots, requests and responses) unchanged.
C17_DuplicateInitializeRejected ==
  [][\A w \in WorkflowIds : \A cfg \in WorkflowConfig :
       (Registered(w) /\ initialize_workflow(w, cfg))
       => active_workflows'[w] = active_workflows[w]]_vars

\* The responses a caller may hand to submit_approval for w when it is free
\* to name any request: one recorded for w (answered already or not), or a
\* request_id no request of w has (0).
AnyResponses(w) ==
  UNION { ApprovalResponse(rid) :
            rid \in 0..(IF Registered(w)
                        THEN Len(active_workflows[w].approval_requests)
                        ELSE 0) }

NextAnyResponse ==
  \/ Next
  \/ \E w \in WorkflowIds : \E response \in AnyResponses(w) :
       submit_approval(w, response)

SpecAnyResponse == Init /\ [][NextAnyResponse]_vars

\* C12: the i-th entry of approval_responses carries the request_id of the
\* i-th entry of approval_requests: every recorded response references an
\* earlier request of the same workflow and no request is resolved by more
\* than one response.
C12_ResponsesPairWithRequests ==
  \A w \in DOMAIN active_workflows :
    /\ Len(active_workflows[w].approval_responses)
         <= Len(active_workflows[w].approval_requests)
    /\ \A i \in DOMAIN active_workflows[w].approval_responses :
         active_workflows[w].approval_responses[i].request_id
           = active_workflows[w].approval_requests[i].request_id

\* C13: operations on one workflow never overlap: while a create_checkpoint
\* call is suspended at the artifact sink no other operation on the same
\* workflow takes effect, so the snapshot is appended only while the workflow
\* is still EXECUTING at the current_checkpoint_index that selected the
\* snapshot's checkpoint_id.
C13_NoOverlapWhileSuspended ==
  [][\A w \in WorkflowIds :
       (Registered(w) /\ SuspendedOn(w) # {})
       => /\ OrchestratorOp(w) => UNCHANGED vars
          /\ \A c \in SuspendedOn(w) : \A r \in ArtifactUri \cup {None} :
               create_checkpoint_resume(c, r)
               => LET workflow == active_workflows[w] IN
                  /\ workflow.current_state = EXECUTING
                  /\ workflow.current_checkpoint_index < NumCheckpoints(workflow)
                  /\ workflow.config.checkpoints[
                       workflow.current_checkpoint_index + 1].checkpoint_id
                       = c.snapshot.checkpoint_id]_vars

\* C14: the order of entries in snapshots equals the order in which the
\* create_checkpoint calls were issued (snapshot ids are handed out in call
\* order), also when several calls are in flight and the sink completes them
\* in a different order.
C14_SnapshotsInIssueOrder ==
  \A w \in DOMAIN active_workflows :
    \A i, j \in DOMAIN active_workflows[w].snapshots :
      i < j => active_workflows[w].snapshots[i].snapshot_id
                 < active_workflows[w].snapshots[j].snapshot_id

\* s is t or t with entries appended.
IsPrefix(t, s) == Len(t) <= Len(s) /\ SubSeq(s, 1, Len(t)) = t

\* C15: the snapshots list of a workflow only grows by appending: no
\* operation removes, reorders or replaces an existing snapshot, and each
\* snapshot's checkpoint_id is config.checkpoints[k].checkpoint_id for the
\* value k of current_checkpoint_index when create_checkpoint was called
\* (the snapshot is built at the call and keeps its checkpoint_id while the
\* call is suspended).
C15_SnapshotsAppendOnly ==
  [][\A w \in WorkflowIds :
       Registered(w)
       => LET workflow == active_workflows[w]
              k == workflow.current_checkpoint_index
          IN  /\ IsPrefix(workflow.snapshots, active_workflows'[w].snapshots)
              /\ \A es \in ExecutionState :
                   LET out == create_checkpoint_outcome(workflow, Issued(w) + 1, es)
                   IN  out.result = "snapshot"
                       => out.snapshot.checkpoint_id
                            = workflow.config.checkpoints[k + 1].checkpoint_id
              /\ \A c \in SuspendedOn(w) : \A r \in ArtifactUri \cup {None} :
                   create_checkpoint_resume(c, r)
                   => active_workflows'[w].snapshots[Len(workflow.snapshots) + 1]
                        .checkpoint_id = c.snapshot.checkpoint_id]_vars

\* ------------------------------------------------------------------------
\* The happy path: one caller drives a workflow through start, then for each
\* checkpoint create_checkpoint (awaited), request_approval for the snapshot
\* it returned and submit_approval APPROVED, then complete_workflow
\* (test_complete_workflow_happy_path).  The orchestrator is built with or
\* without an artifact sink, and the sink answers or fails.
\* ------------------------------------------------------------------------
InitHappy ==
  /\ active_workflows = << >>
  /\ escrow = Escrow(0)
  /\ Constructed
  /\ x402_integration \in BOOLEAN
  /\ suspended = {}

\* The next call of the happy-path caller on the registered workflow w.
happy_path(w) ==
  LET workflow == active_workflows[w] IN
  \/ /\ workflow.current_state = INITIALIZED
     /\ start_execution(w)
  \/ /\ workflow.current_state = EXECUTING
     /\ SuspendedOn(w) = {}
     /\ Len(workflow.snapshots) = Len(workflow.approval_requests)
     /\ \E es \in ExecutionState : create_checkpoint(w, es)
  \/ \E c \in SuspendedOn(w), r \in ArtifactUri \cup {None} :
       create_checkpoint_resume(c, r)
  \/ /\ workflow.current_state = EXECUTING
     /\ Len(workflow.snapshots) = Len(workflow.approval_requests) + 1
     /\ request_approval(w, workflow.snapshots[Len(workflow.snapshots)].snapshot_id)
  \/ /\ workflow.current_state = AWAITING_APPROVAL
     /\ \E response \in Responses(w) :
          /\ response.decision = APPROVED
          /\ submit_approval(w, response)
  \/ /\ workflow.current_state = SETTLING
     /\ complete_workflow(w)

NextHappy ==
  \E w \in WorkflowIds :
    \/ /\ ~Registered(w)
       /\ \E cfg \in WorkflowConfig : initialize_workflow(w, cfg)
    \/ /\ Registered(w)
       /\ happy_path(w)

SpecHappy == InitHappy /\ [][NextHappy]_vars

\* The caller goes on to its next call and the sink call returns or raises
\* (the HTTP client has a timeout).
SpecHappyFair == SpecHappy /\ WF_vars(NextHappy)

\* C16: when the artifact sink fails during create_checkpoint on an EXECUTING
\* workflow the snapshot is still appended to snapshots with artifact_uri
\* empty and the workflow stays EXECUTING; when the sink succeeds the
\* appended snapshot's artifact_uri is the URI the sink returned.
C16_SnapshotKeptWhenSinkFails ==
  [][\A c \in suspended : \A r \in ArtifactUri \cup {None} :
       (/\ active_workflows[c.workflow_id].current_state = EXECUTING
        /\ create_checkpoint_resume(c, r))
       => LET workflow == active_workflows[c.workflow_id]
              after == active_workflows'[c.workflow_id]
          IN  /\ Len(after.snapshots) = Len(workflow.snapshots) + 1
              /\ IsPrefix(workflow.snapshots, after.snapshots)
              /\ after.snapshots[Len(after.snapshots)].snapshot_id
                   = c.snapshot.snapshot_id
              /\ after.snapshots[Len(after.snapshots)].artifact_uri = r
              /\ after.current_state = EXECUTING]_vars

\* A two-checkpoint workflow on an orchestrator with a sink: the sink failed
\* for the first snapshot and answered for the second; both are in snapshots
\* and the workflow is EXECUTING.
C16_Witness ==
  /\ x402_integration
  /\ \E w \in DOMAIN active_workflows :
       /\ Len(active_workflows[w].snapshots) = 2
       /\ active_workflows[w].snapshots[1].artifact_uri = None
       /\ active_workflows[w].snapshots[2].artifact_uri \in ArtifactUri
       /\ active_workflows[w].current_state = EXECUTING

\* What holds along the happy path of a workflow with N checkpoints: after k
\* approvals of k < N checkpoints it is EXECUTING (or awaiting the next
\* approval) at index k, after the N-th it is SETTLING at index N, and once
\* completed it has N snapshots, N requests and N responses, completed_at
\* set and error_message unset.
HappyPathHolds(workflow) ==
  LET N == NumCheckpoints(workflow)
      k == Len(workflow.approval_responses)
  IN  /\ workflow.current_checkpoint_index = k
      /\ workflow.error_message = None
      /\ k < N => workflow.current_state
                    \in {INITIALIZED, EXECUTING, AWAITING_APPROVAL}
      /\ (k >= 1 /\ k < N /\ Len(workflow.approval_requests) = k)
           => workflow.current_state = EXECUTING
      /\ k = N <=> workflow.current_state \in {SETTLING, COMPLETED}
      /\ workflow.current_state = COMPLETED
           => /\ Len(workflow.snapshots) = N
              /\ Len(workflow.approval_requests) = N
              /\ workflow.completed_at # None
      /\ workflow.current_state # COMPLETED => workflow.completed_at = None

\* C18: for a workflow with N >= 1 checkpoints the sequence start, N rounds
\* of (create_checkpoint, request_approval, submit_approval APPROVED), then
\* complete ends in COMPLETED with current_checkpoint_index = N, exactly N
\* snapshots, requests and responses, completed_at set and error_message
\* unset; after each of the first N-1 approvals the state is EXECUTING and
\* after the N-th it is SETTLING.
C18_HappyPathCompletes ==
  /\ [](\A w \in DOMAIN active_workflows : HappyPathHolds(active_workflows[w]))
  /\ \A w \in WorkflowIds :
       Registered(w) ~> (/\ Registered(w)
                         /\ active_workflows[w].current_state = COMPLETED)

\* A two-checkpoint workflow completed along the happy path.
C18_Witness ==
  \E w \in DOMAIN active_workflows :
    /\ NumCheckpoints(active_workflows[w]) = 2
    /\ active_workflows[w].current_state = COMPLETED
    /\ active_workflows[w].current_checkpoint_index = 2
    /\ Len(active_workflows[w].snapshots) = 2
    /\ Len(active_workflows[w].approval_responses) = 2
    /\ active_workflows[w].completed_at = UtcNow

\* ------------------------------------------------------------------------
\* api/x402/client.py: settlement of a workflow's escrow
\* ------------------------------------------------------------------------
MaxSettlements == 2   \* settlements posted with success per escrow

\* Python floats are modelled by exact decimals: an amount is a whole number
\* of hundredths, a ratio (completion_percentage, 0.1, 0.9) a whole number of
\* tenths.  The amounts drawn are multiples of 100 hundredths, so that every
\* product below is exact.
Amount(units) == units * 100

EscrowAmounts == {Amount(0), Amount(1), Amount(50), Amount(100)}

\* completion_percentage values a caller passes: 0, 0.3, 0.5, 1.0 and 1.2.
CompletionRatios == {0, 3, 5, 10, 12}

\* amount * ratio, the ratio in tenths.
Times(amount, tenths) == (amount * tenths) \div 10

Min(a, b) == IF a <= b THEN a ELSE b

\* X402Client.calculate_settlement (lines 361-384).
calculate_settlement(workflow_id, completion_percentage, escrow_amount) ==
  LET base_payment == Times(escrow_amount, completion_percentage)
      supervisor_fee == Times(base_payment, 1)
      executor_payment == Times(base_payment, 9)
  IN  [workflow_id |-> workflow_id,
       completion_percentage |-> completion_percentage,
       total_escrow |-> escrow_amount,
       total_payout |-> base_payment,
       splits |-> << [recipient_type |-> "executor",
                      amount |-> executor_payment,
                      reason |-> "partial_completion"],
                     [recipient_type |-> "supervisor",
                      amount |-> supervisor_fee,
                      reason |-> "supervision_fee"] >>]

\* What one POST /escrow/split does: the platform applies the splits and
\* answers, or refuses and the client raises httpx.HTTPError.
HttpOutcome == {"ok", "error"}

\* @retry_on_failure(max_retries=3, delay=1.0) on split_payment.
max_retries == 3

\* The attempts retry_on_failure makes of split_payment: up to the first
\* that answers, at most max_retries + 1.
split_payment_attempts ==
  UNION { [1..n -> HttpOutcome] : n \in 1..(max_retries + 1) }

\* retry_on_failure (lines 36-58): True when an attempt answered, the last
\* exception raised when all max_retries + 1 attempts failed.
split_payment(attempts) ==
  IF \E i \in DOMAIN attempts : attempts[i] = "ok" THEN True ELSE "HTTPError"

Sum(splits) == splits[1].amount + splits[2].amount

\* X402Integration.settle_workflow (lines 663-704): no state of the workflow
\* or of earlier settlements is consulted.
X402Integration_settle_workflow(w, completion_percentage, attempts) ==
  LET settlement == calculate_settlement(w, completion_percentage, escrow.amount)
      splits == << [recipient_id |-> "executor_id",
                    amount |-> settlement.splits[1].amount,
                    reason |-> "execution"],
                   [recipient_id |-> "supervisor_id",
                    amount |-> settlement.splits[2].amount,
                    reason |-> "supervision"] >>
  IN  /\ escrow.posts < MaxSettlements
      /\ \* the attempts end with the first answer
         \A i \in 1..(Len(attempts) - 1) : attempts[i] = "error"
      /\ IF split_payment(attempts) = True
         THEN escrow' = [escrow EXCEPT !.released = @ + Sum(splits),
                                       !.posts = @ + 1,
                                       !.settlement = << settlement >>]
         ELSE /\ Len(attempts) = max_retries + 1
              /\ UNCHANGED escrow
      /\ UNCHANGED << active_workflows, x402_integration, suspended, now,
                      supervisor, checkpoint_manager, rollback_manager,
                      rollback_tasks, executor, monitor, http >>

\* setup_supervised_workflow has locked an escrow of one of the amounts.
InitSettlement ==
  /\ active_workflows = << >>
  /\ x402_integration = TRUE
  /\ suspended = {}
  /\ escrow \in { Escrow(amount) : amount \in EscrowAmounts }
  /\ Constructed

NextSettlement ==
  \E w \in WorkflowIds, completion_percentage \in CompletionRatios,
     attempts \in split_payment_attempts :
    X402Integration_settle_workflow(w, completion_percentage, attempts)

SpecSettlement == InitSettlement /\ [][NextSettlement]_vars

\* C19: the total amount paid out of a workflow's escrow never exceeds its
\* escrow amount; settling the same workflow twice does not perform the
\* payment split a second time.
C19_ReleasesWithinEscrow ==
  /\ escrow.released <= escrow.amount
  /\ escrow.posts <= 1

\* C20: for every escrow amount E >= 0 and completion ratio r the settlement
\* has exactly two splits, 90% of the payout to the executor and 10% to the
\* supervisor, and the split amounts sum to min(E x r, E); with r = 1 and
\* E = 100 the splits are 90 and 10.
C20_SettlementConservation ==
  \A i \in DOMAIN escrow.settlement :
    LET settlement == escrow.settlement[i]
        E == settlement.total_escrow
        payout == Min(Times(E, settlement.completion_percentage), E)
    IN  /\ Len(settlement.splits) = 2
        /\ settlement.splits[1].recipient_type = "executor"
        /\ settlement.splits[1].amount = Times(payout, 9)
        /\ settlement.splits[2].recipient_type = "supervisor"
        /\ settlement.splits[2].amount = Times(payout, 1)
        /\ Sum(settlement.splits) = payout
        /\ (E = Amount(100) /\ settlement.completion_percentage = 10)
             => /\ settlement.splits[1].amount = Amount(90)
                /\ settlement.splits[2].amount = Amount(10)

\* ------------------------------------------------------------------------
\* Calls from an illegal source state
\* ------------------------------------------------------------------------
\* C26: start_execution outside INITIALIZED, create_checkpoint outside
\* EXECUTING and submit_approval outside AWAITING_APPROVAL each return
\* failure (False, None, False) and leave the whole execution as it was:
\* state, index, snapshots, requests and responses.
C26_IllegalSourceStateRejected ==
  \A w \in DOMAIN active_workflows :
    LET workflow == active_workflows[w] IN
    /\ workflow.current_state # INITIALIZED
         => start_execution_outcome(workflow) = Outcome(workflow, False)
    /\ workflow.current_state # EXECUTING
         => \A es \in ExecutionState :
              create_checkpoint_outcome(workflow, Issued(w) + 1, es)
                = Outcome(workflow, None)
    /\ workflow.current_state # AWAITING_APPROVAL
         => \A response \in Responses(w) :
              submit_approval_outcome(workflow, response)
                = Outcome(workflow, False)

\* A workflow that failed after a rejection, with a snapshot, a request and
\* a response on record: each of the three calls finds an illegal state.
C26_Witness ==
  \E w \in DOMAIN active_workflows :
    /\ active_workflows[w].current_state = FAILED
    /\ Len(active_workflows[w].snapshots) >= 1
    /\ Len(active_workflows[w].approval_requests) >= 1
    /\ Len(active_workflows[w].approval_responses) >= 1

\* C29: in every reachable state in which current_state is ROLLING_BACK, the
\* checkpoint config at current_checkpoint_index has can_rollback = true.
C29_RollingBackOnlyWhereAllowed ==
  \A w \in DOMAIN active_workflows :
    LET workflow == active_workflows[w] IN
    workflow.current_state = ROLLING_BACK
      => /\ workflow.current_checkpoint_index < NumCheckpoints(workflow)
         /\ workflow.config.checkpoints[workflow.current_checkpoint_index + 1]
              .can_rollback

\* A workflow whose first checkpoint forbids rollback and whose second allows
\* it, rolling back after the rejection of the second.
C29_Witness ==
  \E w \in DOMAIN active_workflows :
    LET workflow == active_workflows[w] IN
    /\ NumCheckpoints(workflow) = 2
    /\ ~workflow.config.checkpoints[1].can_rollback
    /\ workflow.config.checkpoints[2].can_rollback
    /\ workflow.current_checkpoint_index = 1
    /\ workflow.current_state = ROLLING_BACK
    /\ LastResponse(workflow).decision = REJECTED

\* A snapshot is resolved once a response answers a request made for it.
Resolved(workflow, snapshot_id) ==
  \E i \in DOMAIN workflow.approval_requests :
    /\ workflow.approval_requests[i].snapshot_id = snapshot_id
    /\ \E j \in DOMAIN workflow.approval_responses :
         workflow.approval_responses[j].request_id
           = workflow.approval_requests[i].request_id

\* C27: request_approval succeeds only for a snapshot id that belongs to the
\* workflow and has not yet been resolved by a response: with an unknown id
\* it returns None and changes nothing, and a snapshot whose request was
\* already answered is not accepted for approval again.
C27_RequestOnlyUnresolvedSnapshot ==
  [][\A w \in WorkflowIds :
       Registered(w) =>
       \A sid \in SnapshotIds(w) :
         LET workflow == active_workflows[w]
             out == request_approval_outcome(workflow, sid)
         IN  request_approval(w, sid)
             => IF FindSnapshot(workflow, sid) = {} \/ Resolved(workflow, sid)
                THEN /\ out.result = None
                     /\ active_workflows'[w] = workflow
                ELSE out.result = "request"]_vars

\* C28: settle_workflow is accepted only while the workflow is already
\* SETTLING and never moves a workflow into SETTLING from another state;
\* hence current_state = SETTLING implies current_checkpoint_index =
\* len(config.checkpoints) in every reachable state.
C28_SettleOnlyWhenSettling ==
  \A w \in DOMAIN active_workflows :
    LET workflow == active_workflows[w] IN
    /\ workflow.current_state # SETTLING
         => settle_workflow_outcome(workflow) = Outcome(workflow, False)
    /\ workflow.current_state = SETTLING
         => workflow.current_checkpoint_index = NumCheckpoints(workflow)

\* ------------------------------------------------------------------------
\* Approval expiry: the happy-path caller and a supervisor that answers
\* APPROVED or not at all, while the clock runs.
\* ------------------------------------------------------------------------
TickSeconds == 150   \* seconds between two readings of the clock
MaxTicks    == 3     \* readings of the clock after the first

\* Time passes; no handler of the orchestrator, and no task it starts, runs
\* when it does.
tick ==
  /\ now < MaxTicks * TickSeconds
  /\ now' = now + TickSeconds
  /\ UNCHANGED << active_workflows, x402_integration, suspended, escrow,
                  supervisor, checkpoint_manager, rollback_manager,
                  rollback_tasks, executor, monitor, http >>

NextExpiry ==
  \/ NextHappy
  \/ tick

SpecExpiry == InitHappy /\ [][NextExpiry]_vars

\* C25: an approval request that receives no response within its
\* checkpoint's timeout_seconds expires: past that time the workflow is no
\* longer AWAITING_APPROVAL, the request has a response (the synthetic
\* REJECTED one unless the supervisor answered), and a rejected workflow is
\* ROLLING_BACK or FAILED according to can_rollback.
C25_UnansweredRequestExpires ==
  \A w \in DOMAIN active_workflows :
    LET workflow == active_workflows[w]
        requests == workflow.approval_requests
    IN  requests # << >> =>
        LET request == requests[Len(requests)]
            checkpoint_config == workflow.config.checkpoints[request.checkpoint_id]
            answers == { j \in DOMAIN workflow.approval_responses :
                           workflow.approval_responses[j].request_id
                             = request.request_id }
        IN  now > request.created_at + checkpoint_config.timeout_seconds
            => /\ workflow.current_state # AWAITING_APPROVAL
               /\ answers # {}
               /\ \A j \in answers :
                    workflow.approval_responses[j].decision = REJECTED
                    => workflow.current_state =
                         IF checkpoint_config.can_rollback
                         THEN ROLLING_BACK ELSE FAILED

\* ------------------------------------------------------------------------
\* SupervisorAgent (agents/supervisor/agent.py)
\* ------------------------------------------------------------------------
MaxPending == 3   \* approval requests one supervisor agent creates

ValueError == "ValueError"

\* What the supervisor agent's methods never touch.
beyond_supervisor ==
  << active_workflows, x402_integration, suspended, escrow, now,
     checkpoint_manager, rollback_manager, rollback_tasks,
     executor, monitor, http >>

\* Requests the agent has created so far: each is pending or in the history.
Created(agent) ==
  Cardinality(DOMAIN agent.pending_approvals) + Len(agent.approval_history)

\* create_approval_request: the request is filed under its fresh request_id.
create_approval_request(workflow_id, checkpoint_id, snapshot_id) ==
  LET request ==
        ApprovalRequest(Created(supervisor) + 1,
                        [checkpoint_id |-> checkpoint_id,
                         snapshot_id |-> snapshot_id])
  IN  /\ Created(supervisor) < MaxPending
      /\ supervisor' =
           [supervisor EXCEPT !.pending_approvals =
              [r \in DOMAIN @ \cup {request.request_id} |->
                 IF r = request.request_id THEN request ELSE @[r]]]
      /\ UNCHANGED beyond_supervisor

\* submit_decision appending the response and leaving the request pending.
submit_decision_keeps_pending(agent, request_id, decision, modifications) ==
  IF request_id \notin DOMAIN agent.pending_approvals
  THEN [supervisor |-> agent, result |-> ValueError]
  ELSE LET response == [request_id |-> request_id, decision |-> decision,
                        modifications |-> modifications]
       IN  [supervisor |->
              [agent EXCEPT !.approval_history = Append(@, response)],
            result |-> response]

\* submit_decision, lines 260-304: the supervisor it leaves and the response
\* it returns, or the ValueError it raises.
submit_decision_outcome(agent, request_id, decision, modifications) ==
  IF request_id \notin DOMAIN agent.pending_approvals
  THEN [supervisor |-> agent, result |-> ValueError]
  ELSE LET response == [request_id |-> request_id, decision |-> decision,
                        modifications |-> modifications]
       IN  [supervisor |->
              [pending_approvals |->
                 [r \in DOMAIN agent.pending_approvals \ {request_id} |->
                    agent.pending_approvals[r]],
               approval_history |-> Append(agent.approval_history, response)],
            result |-> response]

submit_decision(request_id, decision, modifications) ==
  /\ supervisor' =
       submit_decision_outcome(supervisor, request_id, decision,
                               modifications).supervisor
  /\ UNCHANGED beyond_supervisor

\* The request ids a caller passes to submit_decision: every id the agent
\* handed out, pending or resolved, and one it never handed out (0).
RequestIds == 0..MaxPending

NextSupervisor ==
  \/ \E w \in WorkflowIds, cp \in 1..MaxCheckpoints, sid \in 1..MaxSnapshots :
       create_approval_request(w, cp, sid)
  \/ \E request_id \in RequestIds :
       \E response \in ApprovalResponse(request_id) :
         submit_decision(request_id, response.decision, response.modifications)

SpecSupervisor == Init /\ [][NextSupervisor]_vars

\* C21: submit_decision accepts a decision only for a request id that is
\* pending: on success the request leaves the pending set and one response
\* is appended to the history; for an unknown or already resolved id it
\* raises and leaves pending set and history unchanged; so the history
\* holds at most one response per request, and none for a pending one.
C21_DecisionOnlyForPending ==
  /\ \A request_id \in RequestIds :
       \A response \in ApprovalResponse(request_id) :
         LET out == submit_decision_outcome(supervisor, request_id,
                      response.decision, response.modifications)
         IN  IF request_id \in DOMAIN supervisor.pending_approvals
             THEN /\ out.result = response
                  /\ DOMAIN out.supervisor.pending_approvals
                       = DOMAIN supervisor.pending_approvals \ {request_id}
                  /\ out.supervisor.approval_history
                       = Append(supervisor.approval_history, response)
             ELSE /\ out.result = ValueError
                  /\ out.supervisor = supervisor
  /\ \A i, j \in DOMAIN supervisor.approval_history :
       supervisor.approval_history[i].request_id
         = supervisor.approval_history[j].request_id => i = j
  /\ \A i \in DOMAIN supervisor.approval_history :
       supervisor.approval_history[i].request_id
         \notin DOMAIN supervisor.pending_approvals

\* Three requests created; the second was rejected, then the first approved,
\* and the third is still pending: a decision for the first or second now
\* raises.
C21_Witness ==
  /\ DOMAIN supervisor.pending_approvals = {3}
  /\ Len(supervisor.approval_history) = 2
  /\ supervisor.approval_history[1].request_id = 2
  /\ supervisor.approval_history[1].decision = REJECTED
  /\ supervisor.approval_history[2].request_id = 1
  /\ supervisor.approval_history[2].decision = APPROVED

\* ------------------------------------------------------------------------
\* StateCapture and CheckpointManager (core/checkpoints/capture.py)
\*
\* A Python dict is the sequence of its <<key, value>> items in insertion
\* order, keys distinct.  A Python scalar is written as Python prints it
\* ("None", "True", "7", "1.5", "'plan'") and a JSON literal as json.dumps
\* writes it ("null", "true", "7", "1.5", "\"plan\"").  A datetime is its
\* second and microsecond.  The text json.dumps returns is the one-element
\* sequence holding the document, members in the order written; the empty
\* string is << >>.
\* ------------------------------------------------------------------------
Keys == {"alpha", "beta"}

PyScalars ==
  {"None", "True", "7", "1.5", "'plan'", "'decided'", "'call_1'", "'tampered'"}

\* All dicts with keys in K and values in V, in every insertion order.
Dicts(K, V) ==
  UNION { { d \in [1..n -> K \X V] :
              \A i, j \in 1..n : d[i][1] = d[j][1] => i = j } :
          n \in 0..Cardinality(K) }

AgentMemories        == Dicts(Keys, {"None", "'plan'"})
IntermediateOutputs  == Dicts(Keys, {"True", "7"})
ResourceConsumptions == Dicts(Keys, {"1.5"})
ApiCalls ==
  { << >>,
    << << <<"call_id", "'call_1'">>, <<"has_side_effects", "True">> >> >> }
DecisionTraces == { << >>, << "'decided'" >> }
Microseconds   == {0, 500000}

\* dict.__eq__: the same items, whatever the insertion order.
DictEq(a, b) == { a[i] : i \in DOMAIN a } = { b[i] : i \in DOMAIN b }

\* ExecutionState.__eq__ (pydantic): field by field.
StateEq(s, t) ==
  /\ s.checkpoint_id = t.checkpoint_id
  /\ s.timestamp = t.timestamp
  /\ DictEq(s.agent_memory, t.agent_memory)
  /\ Len(s.api_calls) = Len(t.api_calls)
  /\ \A i \in DOMAIN s.api_calls : DictEq(s.api_calls[i], t.api_calls[i])
  /\ DictEq(s.intermediate_outputs, t.intermediate_outputs)
  /\ s.decision_trace = t.decision_trace
  /\ DictEq(s.resource_consumption, t.resource_consumption)

\* StateCapture.capture_state: the ExecutionState built, stamped with the
\* clock's reading.
capture_state(checkpoint_id, agent_memory, api_calls, intermediate_outputs, decision_trace, resource_consumption, microsecond) ==
  [checkpoint_id |-> checkpoint_id,
   timestamp |-> [second |-> now, microsecond |-> microsecond],
   agent_memory |-> agent_memory,
   api_calls |-> api_calls,
   intermediate_outputs |-> intermediate_outputs,
   decision_trace |-> decision_trace,
   resource_consumption |-> resource_consumption]

\* datetime.isoformat: the fraction is written only when it is not zero.
isoformat(timestamp) ==
  IF timestamp.microsecond = 0
  THEN << timestamp.second >>
  ELSE << timestamp.second, timestamp.microsecond >>

\* datetime.fromisoformat
fromisoformat(text) ==
  [second |-> text[1],
   microsecond |-> IF Len(text) = 2 THEN text[2] ELSE 0]

\* json.dumps of a scalar.
json_dumps(value) ==
  CASE value = "None"      -> "null"
    [] value = "True"      -> "true"
    [] value = "7"         -> "7"
    [] value = "1.5"       -> "1.5"
    [] value = "'plan'"    -> "\"plan\""
    [] value = "'decided'" -> "\"decided\""
    [] value = "'call_1'"  -> "\"call_1\""
    [] value = "'tampered'" -> "\"tampered\""

\* json.loads of a literal.
json_loads(literal) ==
  CASE literal = "null"        -> "None"
    [] literal = "true"        -> "True"
    [] literal = "7"           -> "7"
    [] literal = "1.5"         -> "1.5"
    [] literal = "\"plan\""    -> "'plan'"
    [] literal = "\"decided\"" -> "'decided'"
    [] literal = "\"call_1\""  -> "'call_1'"
    [] literal = "\"tampered\"" -> "'tampered'"

\* json.dumps of a dict without sort_keys: the members in insertion order.
dumps_dict(d) == [i \in DOMAIN d |-> << d[i][1], json_dumps(d[i][2]) >>]

\* json.loads of an object: the items in document order.
loads_dict(members) ==
  [i \in DOMAIN members |-> << members[i][1], json_loads(members[i][2]) >>]

\* StateCapture.serialize_state, lines 78-93.
serialize_state(execution_state) ==
  << [checkpoint_id |-> execution_state.checkpoint_id,
      timestamp |-> isoformat(execution_state.timestamp),
      agent_memory |-> dumps_dict(execution_state.agent_memory),
      api_calls |-> [i \in DOMAIN execution_state.api_calls |->
                       dumps_dict(execution_state.api_calls[i])],
      intermediate_outputs |->
        dumps_dict(execution_state.intermediate_outputs),
      decision_trace |-> [i \in DOMAIN execution_state.decision_trace |->
                            json_dumps(execution_state.decision_trace[i])],
      resource_consumption |->
        dumps_dict(execution_state.resource_consumption)] >>

\* Whether json.loads accepts the text: the empty string is no document.
Parses(serialized) == serialized # << >>

\* deserialize_state losing the fraction of the timestamp.
deserialize_state_whole_seconds(serialized) ==
  LET state_dict == serialized[1] IN
  [checkpoint_id |-> state_dict.checkpoint_id,
   timestamp |-> [second |-> state_dict.timestamp[1], microsecond |-> 0],
   agent_memory |-> loads_dict(state_dict.agent_memory),
   api_calls |-> [i \in DOMAIN state_dict.api_calls |->
                    loads_dict(state_dict.api_calls[i])],
   intermediate_outputs |-> loads_dict(state_dict.intermediate_outputs),
   decision_trace |-> [i \in DOMAIN state_dict.decision_trace |->
                         json_loads(state_dict.decision_trace[i])],
   resource_consumption |-> loads_dict(state_dict.resource_consumption)]

\* StateCapture.deserialize_state, lines 95-108, of a text that parses.
deserialize_state(serialized) ==
  LET state_dict == serialized[1] IN
  [checkpoint_id |-> state_dict.checkpoint_id,
   timestamp |-> fromisoformat(state_dict.timestamp),
   agent_memory |-> loads_dict(state_dict.agent_memory),
   api_calls |-> [i \in DOMAIN state_dict.api_calls |->
                    loads_dict(state_dict.api_calls[i])],
   intermediate_outputs |-> loads_dict(state_dict.intermediate_outputs),
   decision_trace |-> [i \in DOMAIN state_dict.decision_trace |->
                         json_loads(state_dict.decision_trace[i])],
   resource_consumption |-> loads_dict(state_dict.resource_consumption)]

\* hashlib.sha256(...).hexdigest(): equal texts have equal digests and, no
\* collision being known, different texts different ones.
Sha256(text) == << "sha256", text >>

\* StateCapture.compute_state_hash
compute_state_hash(execution_state) == Sha256(serialize_state(execution_state))

\* What the checkpoint manager's methods never touch.
beyond_checkpoint_manager ==
  << active_workflows, x402_integration, suspended, escrow, now,
     supervisor, rollback_manager, rollback_tasks,
     executor, monitor, http >>

Store(manager, checkpoint_id, execution_state) ==
  [manager EXCEPT !.checkpoints =
     [c \in DOMAIN @ \cup {checkpoint_id} |->
        IF c = checkpoint_id THEN execution_state ELSE @[c]]]

\* CheckpointManager.create_checkpoint, called with an id not yet in use.
CheckpointManager_create_checkpoint(checkpoint_id, execution_state) ==
  /\ checkpoint_id \notin DOMAIN checkpoint_manager.checkpoints
  /\ checkpoint_manager' =
       Store(checkpoint_manager, checkpoint_id, execution_state)
  /\ UNCHANGED beyond_checkpoint_manager

\* CheckpointManager.export_checkpoint
export_checkpoint(manager, checkpoint_id) ==
  IF checkpoint_id \in DOMAIN manager.checkpoints
  THEN serialize_state(manager.checkpoints[checkpoint_id])
  ELSE None

\* CheckpointManager.import_checkpoint: the manager it leaves and the bool
\* it returns.
import_checkpoint_outcome(manager, checkpoint_id, serialized) ==
  IF ~Parses(serialized)
  THEN [checkpoint_manager |-> manager, result |-> False]
  ELSE [checkpoint_manager |->
          Store(manager, checkpoint_id, deserialize_state(serialized)),
        result |-> True]

import_checkpoint(checkpoint_id, serialized) ==
  /\ checkpoint_manager' =
       import_checkpoint_outcome(checkpoint_manager, checkpoint_id,
                                 serialized).checkpoint_manager
  /\ UNCHANGED beyond_checkpoint_manager

\* ArtifactStore.create: the record written for the content, under the URI
\* that names the content's hash.
ArtifactStore_create(content) ==
  [uri |-> << "saferun://artifacts/", Sha256(content) >>,
   content_hash |-> Sha256(content),
   content |-> content]

\* A text altered after it was written that still parses.
Tampered(content) ==
  << [content[1] EXCEPT !.decision_trace = Append(@, "\"tampered\"")] >>

\* What the sink hands back for the URI of a record: the record as written,
\* the record with its content altered, or the record with no content.
ArtifactStore_get(record) ==
  { record,
    [record EXCEPT !.content = Tampered(@)],
    [record EXCEPT !.content = << >>] }

\* CheckpointManager.load_checkpoint_from_artifact, lines 273-305: the
\* manager it leaves, and the state it returns or the error it raises.
load_checkpoint_from_artifact_outcome(manager, artifact_uri, checkpoint_id, x402_client, artifact) ==
  IF ~x402_client \/ artifact.content = << >>
  THEN [checkpoint_manager |-> manager, result |-> ValueError]
  ELSE [checkpoint_manager |->
          Store(manager, checkpoint_id, deserialize_state(artifact.content)),
        result |-> "execution_state"]

load_checkpoint_from_artifact(artifact_uri, checkpoint_id, x402_client, artifact) ==
  /\ checkpoint_manager' =
       load_checkpoint_from_artifact_outcome(checkpoint_manager, artifact_uri,
         checkpoint_id, x402_client, artifact).checkpoint_manager
  /\ UNCHANGED beyond_checkpoint_manager

\* The caller: one checkpoint is created under "created"; its export is
\* imported under "imported", and stored as an artifact that is loaded back
\* under "loaded".
CapturedStates ==
  { capture_state("created", agent_memory, api_calls, intermediate_outputs,
                  decision_trace, resource_consumption, microsecond) :
      agent_memory \in AgentMemories, api_calls \in ApiCalls,
      intermediate_outputs \in IntermediateOutputs,
      decision_trace \in DecisionTraces,
      resource_consumption \in ResourceConsumptions,
      microsecond \in Microseconds }

Exports ==
  IF "created" \in DOMAIN checkpoint_manager.checkpoints
  THEN { export_checkpoint(checkpoint_manager, "created") }
  ELSE {}

NextCapture ==
  \/ /\ "created" \notin DOMAIN checkpoint_manager.checkpoints
     /\ \E execution_state \in CapturedStates :
          CheckpointManager_create_checkpoint("created", execution_state)
  \/ \E serialized \in Exports \cup { << >> } :
       import_checkpoint("imported", serialized)
  \/ \E content \in Exports, x402_client \in BOOLEAN :
       \E artifact \in ArtifactStore_get(ArtifactStore_create(content)) :
         load_checkpoint_from_artifact(ArtifactStore_create(content).uri,
                                       "loaded", x402_client, artifact)

SpecCapture == Init /\ [][NextCapture]_vars

Orders(d) == { e \in [DOMAIN d -> { d[i] : i \in DOMAIN d }] : DictEq(e, d) }

\* The states that differ from s only in the insertion order of their maps.
Reordered(s) ==
  { [s EXCEPT !.agent_memory = agent_memory,
              !.intermediate_outputs = intermediate_outputs,
              !.resource_consumption = resource_consumption] :
      agent_memory \in Orders(s.agent_memory),
      intermediate_outputs \in Orders(s.intermediate_outputs),
      resource_consumption \in Orders(s.resource_consumption) }

\* C23: compute_state_hash is invariant under map insertion order: two
\* states whose agent memory, intermediate outputs and resource consumption
\* hold the same items inserted in different orders, all other fields
\* equal, have the same hash.
C23_HashIgnoresInsertionOrder ==
  \A c \in DOMAIN checkpoint_manager.checkpoints :
    LET s == checkpoint_manager.checkpoints[c] IN
    \A t \in Reordered(s) : compute_state_hash(t) = compute_state_hash(s)

\* C24: when the sink returns, for the URI of a stored checkpoint, content
\* whose SHA-256 differs from the hash of what was written, the load
\* detects the mismatch and raises, and installs nothing as a checkpoint.
C24_CorruptedArtifactRejected ==
  [][\A content \in Exports, x402_client \in BOOLEAN :
       LET record == ArtifactStore_create(content) IN
       \A artifact \in ArtifactStore_get(record) :
         ( /\ load_checkpoint_from_artifact(record.uri, "loaded", x402_client,
                                            artifact)
           /\ Sha256(artifact.content) # record.content_hash )
         => /\ load_checkpoint_from_artifact_outcome(checkpoint_manager,
                 record.uri, "loaded", x402_client, artifact).result
                 = ValueError
            /\ checkpoint_manager' = checkpoint_manager]_vars

\* ------------------------------------------------------------------------
\* RollbackManager (core/rollback/reconciliation.py)
\*
\* rollback_manager.keys is the order in which the dict
\* compensating_transactions yields its keys (the order of insertion);
\* rollback_manager.invoked lists the action ids whose transaction's
\* execute() was called, in the order of the calls.
\* ------------------------------------------------------------------------
MaxActions   == 2   \* longest actions_to_rollback list
MaxRollbacks == 1   \* calls of execute_rollback per manager

\* Action ids callers use; no action is ever registered under "a3".
ActionIds == {"a1", "a2", "a3"}

\* A rollback_func as register_action receives it: none, one that returns,
\* or one that raises.
RollbackFuncs == {None, "returns", "raises"}

\* What the rollback manager's methods never touch.
beyond_rollback_manager ==
  << active_workflows, x402_integration, suspended, escrow, now,
     supervisor, checkpoint_manager, executor, monitor, http >>

\* The action types callers register actions under.
ActionTypes == {"api_call", "file_write"}

\* CompensatingTransaction.__init__; runs counts the calls of rollback_func
\* this transaction has made.
CompensatingTransaction(transaction_id, action_type, rollback_func) ==
  [transaction_id |-> transaction_id, action_type |-> action_type,
   rollback_func |-> rollback_func,
   executed |-> FALSE, success |-> FALSE, runs |-> 0]

\* What `await self.rollback_func(self.action_data)` leaves when it is
\* over: executed set, success according to whether the inverse raised.
Finished(transaction) ==
  [transaction EXCEPT !.executed = TRUE,
                      !.success = transaction.rollback_func # "raises"]

\* The transaction as it calls its inverse, if it has one.
Started(transaction) ==
  [transaction EXCEPT !.runs = IF transaction.rollback_func = None
                               THEN @ ELSE @ + 1]

\* execute without the test of `executed`: the inverse is called each time.
execute_runs_again(transaction) ==
  [transaction |-> Finished(Started(transaction)),
   result |-> transaction.rollback_func # "raises"]

\* execute counting a transaction without rollback_func as failed.
execute_fails_without_inverse(transaction) ==
  IF transaction.executed
  THEN [transaction |-> transaction, result |-> transaction.success]
  ELSE [transaction |->
          [Started(transaction) EXCEPT
             !.executed = TRUE,
             !.success = transaction.rollback_func = "returns"],
        result |-> transaction.rollback_func = "returns"]

\* CompensatingTransaction.execute, run to its end: the transaction it
\* leaves and the bool it returns.
execute(transaction) ==
  IF transaction.executed
  THEN [transaction |-> transaction, result |-> transaction.success]
  ELSE [transaction |-> Finished(Started(transaction)),
        result |-> transaction.rollback_func # "raises"]

\* RollbackManager.register_action, called with an id not yet in use
\* ("Unique ID for this action").
register_action(action_id, action_type, rollback_func) ==
  /\ action_id \notin DOMAIN rollback_manager.compensating_transactions
  /\ UNCHANGED rollback_tasks
  /\ rollback_manager' =
       [rollback_manager EXCEPT
          !.compensating_transactions =
            [a \in DOMAIN @ \cup {action_id} |->
               IF a = action_id
               THEN CompensatingTransaction(action_id, action_type,
                                            rollback_func)
               ELSE @[a]],
          !.keys = Append(@, action_id)]
  /\ UNCHANGED beyond_rollback_manager

\* The loop of execute_rollback (lines 142-156) from position i of
\* actions_to_rollback down to the first, breaking off at a failure.
RECURSIVE rollback_loop_until_failure(_, _, _, _)
rollback_loop_until_failure(manager, actions_to_rollback, i, failures) ==
  IF i = 0 \/ failures # << >>
  THEN [rollback_manager |-> manager, failures |-> failures]
  ELSE LET action_id == actions_to_rollback[i] IN
       IF action_id \notin DOMAIN manager.compensating_transactions
       THEN rollback_loop_until_failure(manager, actions_to_rollback, i - 1,
                                        failures)
       ELSE LET done == execute(manager.compensating_transactions[action_id])
            IN  rollback_loop_until_failure(
                  [manager EXCEPT
                     !.compensating_transactions[action_id] = done.transaction,
                     !.invoked = Append(@, action_id)],
                  actions_to_rollback, i - 1,
                  IF done.result THEN failures
                  ELSE Append(failures, action_id))

\* The loop of execute_rollback (lines 142-156) from position i of
\* actions_to_rollback down to the first: an id without a transaction is
\* skipped, a failed transaction is noted and the loop goes on.
RECURSIVE rollback_loop(_, _, _, _)
rollback_loop(manager, actions_to_rollback, i, failures) ==
  IF i = 0
  THEN [rollback_manager |-> manager, failures |-> failures]
  ELSE LET action_id == actions_to_rollback[i] IN
       IF action_id \notin DOMAIN manager.compensating_transactions
       THEN rollback_loop(manager, actions_to_rollback, i - 1, failures)
       ELSE LET done == execute(manager.compensating_transactions[action_id])
            IN  rollback_loop(
                  [manager EXCEPT
                     !.compensating_transactions[action_id] = done.transaction,
                     !.invoked = Append(@, action_id)],
                  actions_to_rollback, i - 1,
                  IF done.result THEN failures
                  ELSE Append(failures, action_id))

\* The manager after the rollback record was appended, and the bool returned.
RollbackOutcome(looped, checkpoint_state, actions_to_rollback) ==
  [rollback_manager |->
     [looped.rollback_manager EXCEPT !.rollback_history =
        Append(@, [checkpoint_id |-> checkpoint_state.checkpoint_id,
                   timestamp |-> now,
                   actions_count |-> Len(actions_to_rollback),
                   success |-> looped.failures = << >>,
                   failures |-> looped.failures])],
   result |-> looped.failures = << >>]

\* execute_rollback giving up at the first transaction that fails.
execute_rollback_stops_at_failure(manager, checkpoint_state, actions_to_rollback) ==
  RollbackOutcome(
    rollback_loop_until_failure(manager, actions_to_rollback,
                                Len(actions_to_rollback), << >>),
    checkpoint_state, actions_to_rollback)

\* RollbackManager.execute_rollback, lines 111-168.
execute_rollback_outcome(manager, checkpoint_state, actions_to_rollback) ==
  RollbackOutcome(
    rollback_loop(manager, actions_to_rollback, Len(actions_to_rollback),
                  << >>),
    checkpoint_state, actions_to_rollback)

execute_rollback(checkpoint_state, actions_to_rollback) ==
  /\ Len(rollback_manager.rollback_history) < MaxRollbacks
  /\ UNCHANGED rollback_tasks
  /\ rollback_manager' =
       execute_rollback_outcome(rollback_manager, checkpoint_state,
                                actions_to_rollback).rollback_manager
  /\ UNCHANGED beyond_rollback_manager

\* The lists of action ids a caller passes: any ids, repeated or not.
ActionLists == UNION { [1..n -> ActionIds] : n \in 0..MaxActions }

\* The checkpoint a rollback returns to.
RollbackTargets ==
  { capture_state("created", << >>, << >>, << >>, << >>, << >>, 0) }

\* The list partial_rollback builds (lines 184-188): the ids registered
\* under one of the types, in the order the dict yields them.
actions_of_types(manager, action_types) ==
  LET OfTypes(action_id) ==
        manager.compensating_transactions[action_id].action_type
          \in action_types
  IN  SelectSeq(manager.keys, OfTypes)

\* RollbackManager.partial_rollback.
partial_rollback(checkpoint_state, action_types) ==
  execute_rollback(checkpoint_state,
                   actions_of_types(rollback_manager, action_types))

NextRollback ==
  \/ \E action_id \in ActionIds \ {"a3"}, action_type \in ActionTypes,
        rollback_func \in RollbackFuncs :
       register_action(action_id, action_type, rollback_func)
  \/ \E checkpoint_state \in RollbackTargets,
        action_types \in SUBSET ActionTypes :
       partial_rollback(checkpoint_state, action_types)
  \/ \E checkpoint_state \in RollbackTargets,
        actions_to_rollback \in ActionLists :
       execute_rollback(checkpoint_state, actions_to_rollback)

SpecRollback == Init /\ [][NextRollback]_vars

Reverse(s) == [i \in 1..Len(s) |-> s[Len(s) + 1 - i]]

\* C30: execute_rollback attempts the compensating transactions of the
\* given action ids in the reverse of the given order and does not stop at
\* a failure: every listed action with a registered transaction is
\* attempted, also after an earlier-attempted one failed; the failed ones
\* are reported, and the call succeeds only when there are none.
C30_RollbackReverseOrderNoShortCircuit ==
  \A checkpoint_state \in RollbackTargets, actions_to_rollback \in ActionLists :
    LET out == execute_rollback_outcome(rollback_manager, checkpoint_state,
                                        actions_to_rollback)
        IsRegistered(action_id) ==
          action_id \in DOMAIN rollback_manager.compensating_transactions
        attempted ==
          SubSeq(out.rollback_manager.invoked,
                 Len(rollback_manager.invoked) + 1,
                 Len(out.rollback_manager.invoked))
        Failed(action_id) ==
          ~out.rollback_manager.compensating_transactions[action_id].success
        record ==
          out.rollback_manager.rollback_history[
            Len(out.rollback_manager.rollback_history)]
    IN  /\ attempted = Reverse(SelectSeq(actions_to_rollback, IsRegistered))
        /\ \A i \in DOMAIN attempted :
             out.rollback_manager.compensating_transactions[attempted[i]]
               .executed
        /\ record.failures = SelectSeq(attempted, Failed)
        /\ out.result = (record.failures = << >>)

\* execute_rollback(state, ["a1", "a2"]) with a2's inverse raising and a1's
\* returning: a2 was attempted first and failed, a1 was attempted after it,
\* and the rollback is recorded as failed on a2.
C30_Witness ==
  /\ rollback_manager.invoked = << "a2", "a1" >>
  /\ Len(rollback_manager.rollback_history) = 1
  /\ rollback_manager.rollback_history[1].failures = << "a2" >>
  /\ ~rollback_manager.rollback_history[1].success
  /\ rollback_manager.compensating_transactions["a1"].success
  /\ rollback_manager.compensating_transactions["a2"].executed
  /\ ~rollback_manager.compensating_transactions["a2"].success

\* ------------------------------------------------------------------------
\* Rollbacks in flight at once
\*
\* execute_rollback is a coroutine: it gives up control only inside
\* `await self.rollback_func(self.action_data)` (line 52), where another
\* execute_rollback of the same manager can start or go on. A task of
\* rollback_tasks is a call suspended there, inside the inverse of
\* actions_to_rollback[i].
\* ------------------------------------------------------------------------
MaxRollbackTasks == 2   \* execute_rollback calls begun per manager

\* The call of execute_rollback from position i of the loop up to the next
\* `await self.rollback_func(...)` or, if there is none, through the append
\* of the record to its return: the manager it leaves and the task it is
\* suspended as, if it is.
RECURSIVE run_to_await(_, _, _, _, _)
run_to_await(manager, checkpoint_state, actions_to_rollback, i, failures) ==
  IF i = 0
  THEN [rollback_manager |->
          RollbackOutcome([rollback_manager |-> manager,
                           failures |-> failures],
                          checkpoint_state,
                          actions_to_rollback).rollback_manager,
        suspended |-> << >>]
  ELSE LET action_id == actions_to_rollback[i] IN
       IF action_id \notin DOMAIN manager.compensating_transactions
       THEN run_to_await(manager, checkpoint_state, actions_to_rollback,
                         i - 1, failures)
       ELSE LET transaction == manager.compensating_transactions[action_id]
                called == [manager EXCEPT !.invoked = Append(@, action_id)]
            IN  IF transaction.executed \/ transaction.rollback_func = None
                THEN LET done == execute(transaction) IN
                     run_to_await(
                       [called EXCEPT
                          !.compensating_transactions[action_id] =
                            done.transaction],
                       checkpoint_state, actions_to_rollback, i - 1,
                       IF done.result THEN failures
                       ELSE Append(failures, action_id))
                ELSE [rollback_manager |->
                        [called EXCEPT
                           !.compensating_transactions[action_id] =
                             Started(transaction)],
                      suspended |->
                        << [checkpoint_state |-> checkpoint_state,
                            actions_to_rollback |-> actions_to_rollback,
                            i |-> i, failures |-> failures] >>]

\* A caller starts execute_rollback while others may be suspended.
begin_rollback(checkpoint_state, actions_to_rollback) ==
  /\ Len(rollback_manager.rollback_history) + Len(rollback_tasks)
       < MaxRollbackTasks
  /\ LET ran == run_to_await(rollback_manager, checkpoint_state,
                             actions_to_rollback, Len(actions_to_rollback),
                             << >>)
     IN  /\ rollback_manager' = ran.rollback_manager
         /\ rollback_tasks' = rollback_tasks \o ran.suspended
  /\ UNCHANGED beyond_rollback_manager

\* The inverse task k is suspended in returns or raises: execute() sets
\* executed and success (lines 56-66), execute_rollback notes a failure
\* (152-156) and goes on with the loop.
resume_rollback(k) ==
  /\ k \in DOMAIN rollback_tasks
  /\ LET task == rollback_tasks[k]
         action_id == task.actions_to_rollback[task.i]
         transaction == rollback_manager.compensating_transactions[action_id]
         result == transaction.rollback_func # "raises"
         others == SubSeq(rollback_tasks, 1, k - 1)
                     \o SubSeq(rollback_tasks, k + 1, Len(rollback_tasks))
         ran == run_to_await(
                  [rollback_manager EXCEPT
                     !.compensating_transactions[action_id] =
                       Finished(transaction)],
                  task.checkpoint_state, task.actions_to_rollback,
                  task.i - 1,
                  IF result THEN task.failures
                  ELSE Append(task.failures, action_id))
     IN  /\ rollback_manager' = ran.rollback_manager
         /\ rollback_tasks' = others \o ran.suspended
  /\ UNCHANGED beyond_rollback_manager

NextRollbackTasks ==
  \/ \E action_id \in ActionIds \ {"a3"}, rollback_func \in RollbackFuncs :
       register_action(action_id, "api_call", rollback_func)
  \/ \E checkpoint_state \in RollbackTargets,
        actions_to_rollback \in ActionLists :
       begin_rollback(checkpoint_state, actions_to_rollback)
  \/ \E k \in 1..MaxRollbackTasks : resume_rollback(k)

SpecRollbackTasks == Init /\ [][NextRollbackTasks]_vars

\* C32: a compensating transaction is marked executed before its inverse
\* starts running, so when two rollbacks of one action id are in flight at
\* once, the second started while the inverse of the first is still
\* suspended, the inverse runs only once: no transaction's inverse is ever
\* called a second time.
C32_InverseRunsOnceWhenInFlightTwice ==
  \A a \in DOMAIN rollback_manager.compensating_transactions :
    rollback_manager.compensating_transactions[a].runs <= 1

\* ------------------------------------------------------------------------
\* A supervisor whose callers pass any modifications with any decision
\* ------------------------------------------------------------------------
\* The `modifications` argument of submit_decision (Optional[Dict], default
\* None): None, the empty dict, or a dict with an entry.
ModificationsArguments ==
  { NoModifications, SomeModifications(<< >>),
    SomeModifications([value |-> 10]) }

NextAnyDecision ==
  \/ \E w \in WorkflowIds, cp \in 1..MaxCheckpoints, sid \in 1..MaxSnapshots :
       create_approval_request(w, cp, sid)
  \/ \E request_id \in RequestIds :
     \E decision \in ApprovalDecision :
     \E modifications \in ModificationsArguments :
       submit_decision(request_id, decision, modifications)

SpecAnyDecision == Init /\ [][NextAnyDecision]_vars

\* C34: every ApprovalResponse submit_decision produces satisfies: decision
\* MODIFIED implies a non-empty modifications mapping, and APPROVED or
\* REJECTED implies no modifications; a MODIFIED decision without
\* modifications is rejected and not recorded.
C34_ModificationsIffModified ==
  \A i \in DOMAIN supervisor.approval_history :
    LET response == supervisor.approval_history[i] IN
    IF response.decision = MODIFIED
    THEN /\ response.modifications # NoModifications
         /\ DOMAIN response.modifications[1] # {}
    ELSE response.modifications = NoModifications

\* ------------------------------------------------------------------------
\* ExecutorAgent (agents/executor/agent.py)
\* ------------------------------------------------------------------------
\* What the executor agent's methods never touch.
beyond_executor ==
  << active_workflows, x402_integration, suspended, escrow, now,
     supervisor, checkpoint_manager, rollback_manager, rollback_tasks,
     monitor, http >>

\* `key in d`
contains(d, key) == \E i \in DOMAIN d : d[i][1] = key

\* `d[key] = value`: a key the dict has keeps its place, a new one is added
\* at the end.
setitem(d, key, value) ==
  IF contains(d, key)
  THEN [i \in DOMAIN d |-> IF d[i][1] = key THEN << key, value >> ELSE d[i]]
  ELSE Append(d, << key, value >>)

\* restore_state, lines 355-369: context and outputs are those of the
\* checkpoint.
restore_state(execution_state) ==
  /\ executor' =
       [execution_context |-> execution_state.agent_memory,
        intermediate_outputs |-> execution_state.intermediate_outputs]
  /\ UNCHANGED beyond_executor

\* One round of the loop as dict.update would do it: the key is set in the
\* context whether it is there or not.
apply_modification_adds_key(agent, key, value) ==
  [agent EXCEPT !.execution_context = setitem(@, key, value)]

\* One round of the loop of apply_modifications, lines 379-383.
apply_modification(agent, key, value) ==
  IF contains(agent.execution_context, key)
  THEN [agent EXCEPT !.execution_context = setitem(@, key, value)]
  ELSE IF contains(agent.intermediate_outputs, key)
       THEN [agent EXCEPT !.intermediate_outputs = setitem(@, key, value)]
       ELSE agent

\* `for key, value in modifications.items()` from item i on.
RECURSIVE apply_modifications_from(_, _, _)
apply_modifications_from(agent, modifications, i) ==
  IF i > Len(modifications)
  THEN agent
  ELSE apply_modifications_from(
         apply_modification(agent, modifications[i][1], modifications[i][2]),
         modifications, i + 1)

\* apply_modifications, lines 371-385.
apply_modifications(modifications) ==
  /\ executor' = apply_modifications_from(executor, modifications, 1)
  /\ UNCHANGED beyond_executor

\* The checkpoints a rollback restores the executor from.
RestoredStates ==
  { capture_state("created", agent_memory, << >>, intermediate_outputs,
                  << >>, << >>, 0) :
      agent_memory \in AgentMemories,
      intermediate_outputs \in IntermediateOutputs }

\* The modifications a supervisor sends: new values for some of the keys.
ModificationDicts == Dicts(Keys, {"1.5"})

NextExecutor ==
  \/ \E execution_state \in RestoredStates : restore_state(execution_state)
  \/ \E modifications \in ModificationDicts :
       apply_modifications(modifications)

SpecExecutor == Init /\ [][NextExecutor]_vars

KeysOf(d) == { d[i][1] : i \in DOMAIN d }

ValueOf(d, key) == d[CHOOSE i \in DOMAIN d : d[i][1] = key][2]

\* C35: applying modifications is a shallow replacement that never adds
\* keys: a key present in the execution context is overwritten there,
\* otherwise a key present in intermediate outputs is overwritten there, a
\* key present in neither is ignored, and every entry not named in the
\* modifications keeps its value.
C35_ModificationsReplaceExistingKeysOnly ==
  \A modifications \in ModificationDicts :
    LET after == apply_modifications_from(executor, modifications, 1)
        context == executor.execution_context
        outputs == executor.intermediate_outputs
        named == KeysOf(modifications)
    IN  /\ KeysOf(after.execution_context) = KeysOf(context)
        /\ Len(after.execution_context) = Len(context)
        /\ KeysOf(after.intermediate_outputs) = KeysOf(outputs)
        /\ Len(after.intermediate_outputs) = Len(outputs)
        /\ \A key \in KeysOf(context) :
             ValueOf(after.execution_context, key)
               = IF key \in named THEN ValueOf(modifications, key)
                 ELSE ValueOf(context, key)
        /\ \A key \in KeysOf(outputs) :
             ValueOf(after.intermediate_outputs, key)
               = IF key \in named /\ key \notin KeysOf(context)
                 THEN ValueOf(modifications, key)
                 ELSE ValueOf(outputs, key)

\* The executor restored with alpha in its context and in its outputs, then
\* given modifications naming alpha and beta: alpha is replaced in the
\* context only, and beta, which neither has, is not added.
C35_Witness ==
  /\ executor.execution_context = << << "alpha", "1.5" >> >>
  /\ executor.intermediate_outputs = << << "alpha", "True" >> >>

\* ------------------------------------------------------------------------
\* MonitorAgent (agents/monitor/agent.py)
\*
\* A condition registered as a trigger is named by what it returns: "holds"
\* and "fails" whatever the state, "no_outputs" when the state has no
\* intermediate outputs.  alert_callback is never set: the alert of line 89
\* goes to nobody.
\* ------------------------------------------------------------------------
MaxTelemetry == 2   \* calls of monitor_execution per monitor

\* What the monitor's methods never touch.
beyond_monitor ==
  << active_workflows, x402_integration, suspended, escrow, now,
     supervisor, checkpoint_manager, rollback_manager, rollback_tasks,
     executor, http >>

Conditions == {"holds", "fails", "no_outputs"}

\* condition(execution_state)
Call(condition, execution_state) ==
  CASE condition = "holds"      -> TRUE
    [] condition = "fails"      -> FALSE
    [] condition = "no_outputs" -> execution_state.intermediate_outputs = << >>

\* register_checkpoint_trigger, lines 33-45.
register_checkpoint_trigger(checkpoint_id, condition) ==
  /\ monitor' =
       [monitor EXCEPT !.checkpoint_triggers =
          [c \in DOMAIN @ \cup {checkpoint_id} |->
             IF c = checkpoint_id THEN condition ELSE @[c]]]
  /\ UNCHANGED beyond_monitor

\* len(repr(x)) of the keys and scalars the monitored states hold.
repr_len(x) ==
  CASE x = "alpha"  -> 7
    [] x = "beta"   -> 6
    [] x = "None"   -> 4
    [] x = "'plan'" -> 6

\* len(str(d)) of a dict: braces, "key: value" items, ", " between them.
RECURSIVE str_len_items(_, _)
str_len_items(d, i) ==
  IF i > Len(d) THEN 0
  ELSE repr_len(d[i][1]) + 2 + repr_len(d[i][2])
       + (IF i < Len(d) THEN 2 ELSE 0) + str_len_items(d, i + 1)

\* _capture_telemetry, lines 113-122.
capture_telemetry(execution_state) ==
  [timestamp |-> now,
   api_calls |-> Len(execution_state.api_calls),
   decisions |-> Len(execution_state.decision_trace),
   outputs |-> Len(execution_state.intermediate_outputs),
   resources |-> execution_state.resource_consumption,
   memory_size |-> 2 + str_len_items(execution_state.agent_memory, 1)]

\* `"error" in d.lower() or "failed" in d.lower()` for the decisions the
\* monitored states hold.
mentions_error(d) == d \in {"'Step 2 FAILED'", "'error calling API'"}

\* dict.get("tokens_used", 0)
tokens_used(resource_consumption) ==
  IF contains(resource_consumption, "tokens_used")
  THEN resource_consumption[
         CHOOSE i \in DOMAIN resource_consumption :
           resource_consumption[i][1] = "tokens_used"][2]
  ELSE 0

\* _detect_anomalies, lines 124-171: the types of the anomalies found.
detect_anomalies(execution_state) ==
  (IF Len(execution_state.api_calls) > 50
   THEN << "high_api_volume" >> ELSE << >>)
  \o (IF tokens_used(execution_state.resource_consumption) > 10000
      THEN << "high_token_usage" >> ELSE << >>)
  \o (IF \E i \in DOMAIN execution_state.decision_trace :
            mentions_error(execution_state.decision_trace[i])
      THEN << "error_detected" >> ELSE << >>)

\* _check_timeout, lines 173-180.
check_timeout(execution_state, checkpoint_config) ==
  now - execution_state.timestamp.second > checkpoint_config.timeout_seconds

\* _generate_recommendations, lines 182-200.
generate_recommendations(execution_state, anomalies) ==
  (IF anomalies # << >> THEN << "review" >> ELSE << >>)
  \o (IF Len(execution_state.api_calls) > 30
      THEN << "smaller_steps" >> ELSE << >>)
  \o (IF execution_state.intermediate_outputs = << >>
      THEN << "verify_progress" >> ELSE << >>)

\* monitor_execution, lines 52-111: the monitor it leaves and the report it
\* returns.
monitor_execution_outcome(agent, execution_state, checkpoint_config) ==
  LET telemetry_entry == capture_telemetry(execution_state)
      custom ==
        /\ checkpoint_config.checkpoint_id \in DOMAIN agent.checkpoint_triggers
        /\ Call(agent.checkpoint_triggers[checkpoint_config.checkpoint_id],
                execution_state)
      anomalies == detect_anomalies(execution_state)
      timeout == check_timeout(execution_state, checkpoint_config)
  IN  [monitor |-> [agent EXCEPT !.telemetry = Append(@, telemetry_entry)],
       report |->
         [checkpoint_id |-> checkpoint_config.checkpoint_id,
          timestamp |-> now,
          should_checkpoint |-> custom \/ anomalies # << >> \/ timeout,
          trigger_reason |->
            IF timeout THEN "timeout"
            ELSE IF anomalies # << >> THEN "anomaly_detected"
            ELSE IF custom THEN "custom_condition"
            ELSE None,
          telemetry |-> telemetry_entry,
          anomalies |-> anomalies,
          recommendations |->
            generate_recommendations(execution_state, anomalies)]]

monitor_execution(execution_state, checkpoint_config) ==
  /\ Len(monitor.telemetry) < MaxTelemetry
  /\ monitor' =
       monitor_execution_outcome(monitor, execution_state,
                                 checkpoint_config).monitor
  /\ UNCHANGED beyond_monitor

\* The execution states handed to the monitor, captured when the clock read
\* 0: a quiet one, one with outputs and memory, and one for each anomaly.
MonitoredStates ==
  LET quiet == [checkpoint_id |-> "created",
                timestamp |-> [second |-> 0, microsecond |-> 0],
                agent_memory |-> << >>, api_calls |-> << >>,
                intermediate_outputs |-> << >>, decision_trace |-> << >>,
                resource_consumption |-> << >>]
  IN  { quiet,
        [quiet EXCEPT !.agent_memory = << << "alpha", "'plan'" >> >>,
                      !.intermediate_outputs = << << "alpha", "True" >> >>,
                      !.decision_trace = << "'decided'" >>],
        [quiet EXCEPT !.api_calls = [i \in 1..51 |-> << >>]],
        [quiet EXCEPT !.resource_consumption =
                        << << "tokens_used", 20000 >> >>],
        [quiet EXCEPT !.decision_trace = << "'Step 2 FAILED'" >>] }

MonitoredConfigs ==
  { CheckpointConfig(i, TRUE, TRUE) : i \in 1..MaxCheckpoints }

NextMonitor ==
  \/ tick
  \/ \E checkpoint_id \in 1..MaxCheckpoints, condition \in Conditions :
       register_checkpoint_trigger(checkpoint_id, condition)
  \/ \E execution_state \in MonitoredStates,
        checkpoint_config \in MonitoredConfigs :
       monitor_execution(execution_state, checkpoint_config)

SpecMonitor == Init /\ [][NextMonitor]_vars

\* C37: the report's should_checkpoint is true if and only if at least one
\* force reason holds for the given state and checkpoint config, the force
\* reasons being a timeout and a registered custom trigger for the
\* checkpoint id returning true; trigger_reason is set exactly when
\* should_checkpoint is true.
C37_ShouldCheckpointIffForceReason ==
  \A execution_state \in MonitoredStates :
  \A checkpoint_config \in MonitoredConfigs :
    LET report == monitor_execution_outcome(monitor, execution_state,
                                            checkpoint_config).report
        timeout ==
          now - execution_state.timestamp.second
            > checkpoint_config.timeout_seconds
        custom ==
          /\ checkpoint_config.checkpoint_id
               \in DOMAIN monitor.checkpoint_triggers
          /\ Call(monitor.checkpoint_triggers[checkpoint_config.checkpoint_id],
                  execution_state)
    IN  /\ report.should_checkpoint <=> (timeout \/ custom)
        /\ (report.trigger_reason # None) <=> report.should_checkpoint

\* ------------------------------------------------------------------------
\* X402Client and retry_on_failure (api/x402/client.py)
\*
\* http.failing is the number of requests the endpoint is about to fail,
\* each with the exception http.error; http.calls lists, per call of a
\* client method, the requests it sent and how it ended.  The decorators of
\* a method are the sequence of their max_retries, outermost first.
\* ------------------------------------------------------------------------
MaxCalls   == 2    \* client calls per endpoint
MaxFailing == 10   \* longest run of requests the endpoint fails

\* What the client's methods never touch.
beyond_http ==
  << active_workflows, x402_integration, suspended, escrow, now,
     supervisor, checkpoint_manager, rollback_manager, rollback_tasks,
     executor, monitor >>

\* httpx.TimeoutException is an httpx.HTTPError; a ValueError (of
\* response.json()) is not.
Exceptions == {"HTTPError", "TimeoutException", "ValueError"}

\* `except (httpx.HTTPError, httpx.TimeoutException)`, line 43
Retryable(result) == result \in {"HTTPError", "TimeoutException"}

\* The body of a client method: one request, answered or failed.
request(endpoint, requests) ==
  IF endpoint.failing > 0
  THEN [endpoint |-> [endpoint EXCEPT !.failing = @ - 1],
        result |-> endpoint.error, requests |-> requests + 1]
  ELSE [endpoint |-> endpoint, result |-> "ok", requests |-> requests + 1]

\* wrapper of retry_on_failure, lines 32-57, from round `attempt` of its
\* loop on: func is the method under the remaining decorators.
RECURSIVE wrapper(_, _, _, _)
wrapper(decorators, endpoint, requests, attempt) ==
  IF decorators = << >>
  THEN request(endpoint, requests)
  ELSE LET max_attempts == Head(decorators) + 1
           tried == wrapper(Tail(decorators), endpoint, requests, 0)
       IN  IF Retryable(tried.result) /\ attempt + 1 < max_attempts
           THEN wrapper(decorators, tried.endpoint, tried.requests,
                        attempt + 1)
           ELSE tried

\* The decorators on the client's methods, lines 93, 143-144 and 160.
Decorators(method) ==
  CASE method = "create_job"        -> << max_retries >>
    [] method = "get_job"           -> << 2, 2 >>
    [] method = "update_job_status" -> << 2 >>

Methods == {"create_job", "get_job", "update_job_status"}

\* A call of a client method, to its return or its exception.
client_call(method) ==
  LET done == wrapper(Decorators(method), http, 0, 0) IN
  /\ Len(http.calls) < MaxCalls
  /\ http' = [done.endpoint EXCEPT !.calls =
                Append(@, [method |-> method, requests |-> done.requests,
                           result |-> done.result])]
  /\ UNCHANGED beyond_http

\* The endpoint starts to fail its next `failing` requests with `error`.
outage(failing, error) ==
  /\ http.failing = 0
  /\ http' = [http EXCEPT !.failing = failing, !.error = error]
  /\ UNCHANGED beyond_http

NextClient ==
  \/ \E method \in Methods : client_call(method)
  \/ \E failing \in 1..MaxFailing, error \in Exceptions :
       outage(failing, error)

SpecClient == Init /\ [][NextClient]_vars

\* max_retries as the decorator line of the method declares it.
Declared(method) == Head(Decorators(method))

\* C40: a client call wrapped by retry_on_failure(max_retries=n) sends the
\* underlying request at most n + 1 times: it returns at the first success,
\* retries only HTTP and timeout errors, re-raises any other error after a
\* single attempt, and after n + 1 HTTP failures raises the last one; for
\* get_job, declared with max_retries=2, at most 3 requests per call.
C40_AtMostDeclaredAttempts ==
  \A i \in DOMAIN http.calls :
    LET call == http.calls[i] IN
    /\ call.requests <= Declared(call.method) + 1
    /\ call.result = "ValueError" => call.requests = 1
    /\ (Retryable(call.result) /\ call.method = "get_job")
         => call.requests = 3

\* ------------------------------------------------------------------------
\* Further invariants of the orchestrator
\* ------------------------------------------------------------------------
\* C36: whenever a workflow's current_state is FAILED its error_message is
\* set: rejection without rollback, complete_rollback with success = false
\* and fail_workflow each record a reason.
C36_FailedHasErrorMessage ==
  \A w \in DOMAIN active_workflows :
    active_workflows[w].current_state = FAILED
      => active_workflows[w].error_message # None

\* A workflow whose rejection was rolled back without success: FAILED with
\* the reason complete_rollback records.
C36_Witness ==
  \E w \in DOMAIN active_workflows :
    /\ active_workflows[w].current_state = FAILED
    /\ active_workflows[w].error_message = RollbackFailed
    /\ Len(active_workflows[w].approval_responses) = 1

\* The executions an operation can leave when called on `workflow` of w,
\* each with the name of the operation and its argument.
Successors(w, workflow) ==
  { [op |-> "start_execution", arg |-> None,
     workflow |-> start_execution_outcome(workflow).workflow],
    [op |-> "settle_workflow", arg |-> None,
     workflow |-> settle_workflow_outcome(workflow).workflow],
    [op |-> "complete_workflow", arg |-> None,
     workflow |-> complete_workflow_outcome(workflow).workflow] }
  \cup { LET out == create_checkpoint_outcome(workflow, Issued(w) + 1, es) IN
         [op |-> "create_checkpoint", arg |-> None,
          workflow |-> IF out.result = "snapshot"
                       THEN AppendSnapshot(out.workflow, out.snapshot)
                       ELSE out.workflow] : es \in ExecutionState }
  \cup { [op |-> "request_approval", arg |-> None,
          workflow |-> request_approval_outcome(workflow, sid).workflow] :
           sid \in SnapshotIds(w) }
  \cup { [op |-> "submit_approval", arg |-> response.decision,
          workflow |-> submit_approval_outcome(workflow, response).workflow] :
           response \in Responses(w) }
  \cup { [op |-> "complete_rollback", arg |-> None,
          workflow |-> complete_rollback_outcome(workflow, success).workflow] :
           success \in BOOLEAN }
  \cup { [op |-> "fail_workflow", arg |-> None,
          workflow |-> fail_workflow_outcome(workflow, error).workflow] :
           error \in ErrorReasons }

\* C38: current_checkpoint_index increases only in a submit_approval with
\* decision APPROVED taken in AWAITING_APPROVAL, and by exactly one; no
\* other operation ever increases it.
C38_IndexIncreasesOnlyOnApproval ==
  \A w \in DOMAIN active_workflows :
    LET workflow == active_workflows[w] IN
    \A next \in Successors(w, workflow) :
      /\ next.workflow.current_checkpoint_index
           > workflow.current_checkpoint_index
         => /\ next.op = "submit_approval"
            /\ next.arg = APPROVED
            /\ workflow.current_state = AWAITING_APPROVAL
            /\ next.workflow.current_checkpoint_index
                 = workflow.current_checkpoint_index + 1
      /\ (next.op = "submit_approval" /\ next.arg = APPROVED
            /\ workflow.current_state = AWAITING_APPROVAL)
         => next.workflow.current_checkpoint_index
              = workflow.current_checkpoint_index + 1

\* A two-checkpoint workflow at index 2 after two approvals.
C38_Witness ==
  \E w \in DOMAIN active_workflows :
    /\ NumCheckpoints(active_workflows[w]) = 2
    /\ active_workflows[w].current_checkpoint_index = 2
    /\ Len(active_workflows[w].approval_responses) = 2
    /\ \A i \in 1..2 :
         active_workflows[w].approval_responses[i].decision = APPROVED

\* ------------------------------------------------------------------------
\* A supervisor client that submits its response again when submit_approval
\* raised.
\* ------------------------------------------------------------------------
MaxResubmits == 1   \* responses submitted again after an exception

resubmit_approval(w, response) ==
  /\ Registered(w)
  /\ IndexError \in
       { submit_approval_outcome(active_workflows[w], r).result :
           r \in Responses(w) }
  /\ Len(active_workflows[w].approval_responses) < MaxResponses + MaxResubmits
  /\ active_workflows' =
       Update(w, submit_approval_outcome(active_workflows[w], response).workflow)
  /\ UNCHANGED << x402_integration, suspended, beyond_orchestrator >>

NextResubmit ==
  \/ Next
  \/ \E w \in WorkflowIds : \E response \in Responses(w) :
       resubmit_approval(w, response)

SpecResubmit == Init /\ [][NextResubmit]_vars

\* C39: in every reachable state len(approval_responses) <=
\* len(approval_requests): a response is never recorded without a request
\* created since the previous response.
C39_ResponsesNeverExceedRequests ==
  \A w \in DOMAIN active_workflows :
    Len(active_workflows[w].approval_responses)
      <= Len(active_workflows[w].approval_requests)

\* The lists execute_rollback is reached with: those callers pass and those
\* partial_rollback builds.
RollbackLists ==
  ActionLists \cup
  { actions_of_types(rollback_manager, action_types) :
      action_types \in SUBSET ActionTypes }

Elements(s) == { s[i] : i \in DOMAIN s }

C33_RollbackReportsFailures ==
  \A checkpoint_state \in RollbackTargets :
  \A actions_to_rollback \in RollbackLists :
    LET transactions == rollback_manager.compensating_transactions
        out == execute_rollback_outcome(rollback_manager, checkpoint_state,
                                        actions_to_rollback)
        history == out.rollback_manager.rollback_history
        record == history[Len(history)]
        failed == { a \in Elements(actions_to_rollback) :
                      /\ a \in DOMAIN transactions
                      /\ transactions[a].rollback_func = "raises" }
    IN  /\ Elements(record.failures) = failed
        /\ out.result = (failed = {})
        /\ record.success = out.result
        /\ record.actions_count = Len(actions_to_rollback)
        /\ record.checkpoint_id = checkpoint_state.checkpoint_id
        /\ SubSeq(history, 1, Len(history) - 1)
             = rollback_manager.rollback_history
        /\ \A a \in Elements(actions_to_rollback) :
             ( \/ a \notin DOMAIN transactions
               \/ transactions[a].rollback_func = None )
             => a \notin Elements(record.failures)

\* A rollback of an action without inverse and an id never registered,
\* recorded as a success with no failures.
C33_Witness ==
  /\ Len(rollback_manager.rollback_history) = 1
  /\ rollback_manager.rollback_history[1].success
  /\ rollback_manager.rollback_history[1].failures = << >>
  /\ rollback_manager.rollback_history[1].actions_count = 2
  /\ rollback_manager.invoked = << "a1" >>
  /\ rollback_manager.compensating_transactions["a1"].rollback_func = None
  /\ rollback_manager.compensating_transactions["a1"].executed

====
